---- MODULE Spec2Model ----
(***************************************************************************)
(* Conversation orchestration of the e-commerce chatbot: agent routing     *)
(* (ConversationOrchestrator.determine_agent), the orchestrator turn       *)
(* (process_message), the agents' tool-calling loop and the conversation   *)
(* state held by the orchestrator.                                         *)
(*                                                                         *)
(* Texts are TLA+ strings; "x in s" of Python is Contains(s, x) and        *)
(* str.lower() is Lower(s), both computed character by character.          *)
(***************************************************************************)
EXTENDS Integers, Sequences, FiniteSets, TLC

VARIABLES
    conversation_state, \* ConversationOrchestrator.conversation_state
    current_agent,      \* ConversationOrchestrator.current_agent
    pc,                 \* position of the caller / of the turn in progress
    message,            \* argument of the call in progress (or of the last call)
    chat_history,       \* argument of the call in progress (or of the last call)
    selected_agent,     \* local of process_message
    order_context,      \* local of OrderAgent.process_message
    orders,             \* the orders table of the database
    order,              \* what the last construction of an OrderModel left
    order_call,         \* the order function entered last and its arguments
    response_message,   \* local of the agent: the first model response
    pending_calls,      \* tool calls of the first model response not yet executed
    invoked,            \* positions of the tool calls whose handler was invoked
    messages,           \* what _handle_function_calls appended to the message list
    function_results,   \* local of _handle_function_calls
    requests,           \* model requests submitted during the turn
    result,             \* value returned by the last process_message call
    last_call,          \* which operation of the orchestrator returned last
    entry,              \* the two state fields and the orders table as they were
                        \* when the call was entered
    chatbots,           \* the ECommerceChatbot instances of the process
    active_chatbot      \* the instance whose process_user_message is running

vars == <<conversation_state, current_agent, pc, message, chat_history,
          selected_agent, order_context, response_message, pending_calls,
          invoked, messages, function_results, requests, result, last_call,
          entry, orders, order, order_call, chatbots, active_chatbot>>

\* the variables of the order functions
order_vars == <<orders, order, order_call>>

\* the variables of the chatbot instances
chatbot_vars == <<chatbots, active_chatbot>>

\* the variables of a conversation turn, but for pc, result and last_call
turn_vars == <<conversation_state, current_agent, message, chat_history,
               selected_agent, order_context, response_message, pending_calls,
               invoked, messages, function_results, requests, entry>>

-----------------------------------------------------------------------------
(* Bounds *)

\* longest transcript handed to determine_agent in the routing specification
MaxHist == 6

\* longest transcript handed to process_message
MaxTurns == 2

\* most tool calls in one model response
MaxToolCalls == 2

-----------------------------------------------------------------------------
(* Python values *)

None == "None"

Min(S) == CHOOSE x \in S : \A y \in S : x <= y

Max(a, b) == IF a >= b THEN a ELSE b

\* seq[-n:] taken one element short
LastN_OneShort(seq, n) == SubSeq(seq, Max(1, Len(seq) - n + 2), Len(seq))

\* seq[-n:]
LastN(seq, n) == SubSeq(seq, Max(1, Len(seq) - n + 1), Len(seq))

-----------------------------------------------------------------------------
(* Text *)

CharAt(s, i) == SubSeq(s, i, i)

UpperToLower ==
    [A |-> "a", B |-> "b", C |-> "c", D |-> "d", E |-> "e", F |-> "f",
     G |-> "g", H |-> "h", I |-> "i", J |-> "j", K |-> "k", L |-> "l",
     M |-> "m", N |-> "n", O |-> "o", P |-> "p", Q |-> "q", R |-> "r",
     S |-> "s", T |-> "t", U |-> "u", V |-> "v", W |-> "w", X |-> "x",
     Y |-> "y", Z |-> "z"]

LowerChar(c) == IF c \in DOMAIN UpperToLower THEN UpperToLower[c] ELSE c

RECURSIVE Lower(_)
\* str.lower()
Lower(s) ==
    IF Len(s) = 0 THEN s
    ELSE LowerChar(CharAt(s, 1)) \o Lower(SubSeq(s, 2, Len(s)))

\* k in s
Contains(s, k) ==
    \E i \in 1..(Len(s) - Len(k) + 1) : SubSeq(s, i, i + Len(k) - 1) = k

\* any(k in s for k in keywords)
AnyIn(keywords, s) == \E k \in keywords : Contains(s, k)

Digits == {"0", "1", "2", "3", "4", "5", "6", "7", "8", "9"}

LowerLetters == {UpperToLower[c] : c \in DOMAIN UpperToLower}

\* ord-\d{8}-[a-z0-9]{8} matched at position i
MatchesOrderIdAt(s, i) ==
    /\ i + 20 <= Len(s)
    /\ SubSeq(s, i, i + 3) = "ord-"
    /\ \A j \in 4..11 : CharAt(s, i + j) \in Digits
    /\ CharAt(s, i + 12) = "-"
    /\ \A j \in 13..20 : CharAt(s, i + j) \in Digits \cup LowerLetters

\* #ord[\d-]+ matched at position i
MatchesHashOrdAt(s, i) ==
    /\ i + 4 <= Len(s)
    /\ SubSeq(s, i, i + 3) = "#ord"
    /\ CharAt(s, i + 4) \in Digits \cup {"-"}

\* re.search(r"ord-\d{8}-[a-z0-9]{8}|#ord[\d-]+", s)
SearchOrderId(s) ==
    \E i \in 1..Len(s) : MatchesOrderIdAt(s, i) \/ MatchesHashOrdAt(s, i)

-----------------------------------------------------------------------------
(* Transcript turns *)

ChatMessage(role, content) == [role |-> role, content |-> content]

\* an element of the transcript that has the attributes of a ChatMessage
IsChatMessage(turn) == {"role", "content"} \subseteq DOMAIN turn

\* an element a caller passed that is not a ChatMessage (a plain dict)
PlainDict == [dict |-> "hi"]

-----------------------------------------------------------------------------
(* Keyword lists *)

order_keywords ==
    {"buy", "purchase", "order", "confirm", "take it", "add to cart",
     "checkout", "place order", "i want", "get me", "i'll take",
     "yes please", "proceed", "continue"}

order_intent_phrases ==
    {"i'll take it", "i'll buy", "i want to buy", "purchase", "order",
     "add to cart", "checkout", "place order", "confirm", "yes please",
     "i want", "get me", "buy now", "i need"}

product_indicators ==
    {"price", "$", "product", "available", "stock", "category", "spec"}

handoff_indicators == {"price", "product", "$", "available"}

order_id_patterns == {"order", "ord-", "#ord", "status"}

-----------------------------------------------------------------------------
(* Routing *)

\* OrderAgent.detect_order_intent
detect_order_intent(m) == AnyIn(order_keywords, Lower(m))

\* The loop "for turn in recent: if any(word in turn.content.lower() ...):
\* return True" : the first turn that decides it either has an indicator or
\* has no content attribute.
ScanRecent(recent, indicators) ==
    LET decisive == {i \in 1..Len(recent) :
                        \/ ~IsChatMessage(recent[i])
                        \/ AnyIn(indicators, Lower(recent[i].content))}
    IN  IF decisive = {} THEN "False"
        ELSE IF IsChatMessage(recent[Min(decisive)]) THEN "True"
        ELSE "AttributeError"

\* _has_product_context scanning the whole transcript
HasProductContextOutcome_WholeTranscript(h) ==
    IF Len(h) = 0 THEN "False" ELSE ScanRecent(h, product_indicators)

\* ConversationOrchestrator._has_product_context
HasProductContextOutcome(h) ==
    IF Len(h) = 0 THEN "False" ELSE ScanRecent(LastN(h, 5), product_indicators)

has_product_context(h) == HasProductContextOutcome(h) = "True"

has_product_context_raises(h) == HasProductContextOutcome(h) = "AttributeError"

\* should_handoff_to_order_agent scanning the whole transcript
ShouldHandoffOutcome_WholeTranscript(m, h) ==
    IF AnyIn(order_intent_phrases, Lower(m))
    THEN ScanRecent(h, handoff_indicators)
    ELSE "False"

\* RAGAgent.should_handoff_to_order_agent
ShouldHandoffOutcome(m, h) ==
    IF AnyIn(order_intent_phrases, Lower(m))
    THEN ScanRecent(LastN(h, 5), handoff_indicators)
    ELSE "False"

should_handoff_to_order_agent(m, h) == ShouldHandoffOutcome(m, h) = "True"

should_handoff_raises(m, h) == ShouldHandoffOutcome(m, h) = "AttributeError"

\* ConversationOrchestrator.determine_agent, when it raises
determine_agent_raises(m, h) ==
    IF detect_order_intent(m) /\ HasProductContextOutcome(h) # "False"
    THEN has_product_context_raises(h)
    ELSE should_handoff_raises(m, h)

\* determine_agent searching the order ID in the message as typed
determine_agent_CaseSensitive(m, h) ==
    IF detect_order_intent(m) /\ has_product_context(h) THEN "order_agent"
    ELSE IF should_handoff_to_order_agent(m, h) THEN "order_agent"
    ELSE IF /\ AnyIn(order_id_patterns, Lower(m))
            /\ SearchOrderId(m) THEN "order_agent"
    ELSE "rag_agent"

\* determine_agent routing on the order vocabulary alone
determine_agent_VocabularyOnly(m, h) ==
    IF detect_order_intent(m) /\ has_product_context(h) THEN "order_agent"
    ELSE IF should_handoff_to_order_agent(m, h) THEN "order_agent"
    ELSE IF AnyIn(order_id_patterns, Lower(m)) THEN "order_agent"
    ELSE "rag_agent"

\* determine_agent without the handoff check of lines 21-22
determine_agent_WithoutHandoffCheck(m, h) ==
    IF detect_order_intent(m) /\ has_product_context(h) THEN "order_agent"
    ELSE IF /\ AnyIn(order_id_patterns, Lower(m))
            /\ SearchOrderId(Lower(m)) THEN "order_agent"
    ELSE "rag_agent"

\* ConversationOrchestrator.determine_agent, when it returns
determine_agent(m, h) ==
    IF detect_order_intent(m) /\ has_product_context(h) THEN "order_agent"
    ELSE IF should_handoff_to_order_agent(m, h) THEN "order_agent"
    ELSE IF /\ AnyIn(order_id_patterns, Lower(m))
            /\ SearchOrderId(Lower(m)) THEN "order_agent"
    ELSE "rag_agent"

-----------------------------------------------------------------------------
(* Inputs *)

\* transcript turns: no indicator token, an indicator of both lists, an
\* indicator of _has_product_context only
PlainTurn == ChatMessage("user", "Hi there")

PricedTurn == ChatMessage("assistant", "MacBook $1999")

StockTurn == ChatMessage("assistant", "In Stock now")

\* all sequences over S of length 0..n
SeqsUpTo(S, n) == UNION {[1..k -> S] : k \in 0..n}

RouteHistories == SeqsUpTo({PlainTurn, PricedTurn, StockTurn}, MaxHist)

MessageCores ==
    {"Tell me more",            \* no keyword
     "status?",                 \* order vocabulary, no order ID
     "I'll take it",            \* keyword of both lists
     "BUY NOW",                 \* the same, upper case
     "Proceed",                 \* keyword of detect_order_intent only
     "I need it",               \* phrase of should_handoff_to_order_agent only
     "ORD-20241213-ABC12345",   \* order ID
     "ord-20241213-abc1234",    \* one character short of an order ID
     "ORD-2024121X-ABC12345",   \* a letter among the 8 digits
     "#ORD-7",                  \* the short form
     "#ORD",                    \* the short form without a number
     "order #ord-7"}            \* keyword and order ID

\* each core alone and inside a longer message
RouteMessages == MessageCores \cup {"Hi. " \o core \o " now" : core \in MessageCores}

-----------------------------------------------------------------------------
(* Regular expressions of OrderAgent.extract_order_context                  *)
(*                                                                         *)
(* A match attempt at position i of a text yields Match(end, group): the   *)
(* last position of the match and what re.findall reports for it; end = 0  *)
(* when the pattern does not match at i.  Each pattern is matched the way  *)
(* the backtracking matcher resolves it: every repetition of these         *)
(* patterns is followed by an element that cannot start with a character   *)
(* of the repetition, so a match takes the longest runs, except for        *)
(* 'Product:\s*([^,\n]+)' where \s* gives characters back to the group.    *)

\* \s
Whitespace == {" ", "\t", "\n", "\r", "\f"}

UpperLetters == DOMAIN UpperToLower

\* \w
WordChars == LowerLetters \cup UpperLetters \cup Digits \cup {"_"}

\* [\d,]
AmountChars == Digits \cup {","}

Largest(S) == CHOOSE x \in S : \A y \in S : y <= x

\* last position of the longest run of characters of class that starts at
\* position i; i - 1 when the character at i is not of the class
RunEnd(s, i, class) ==
    LET stops == {k \in i..Len(s) : CharAt(s, k) \notin class}
    IN  IF stops = {} THEN Max(Len(s), i - 1) ELSE Min(stops) - 1

\* the same for a run of characters outside excluded
RunEndExcept(s, i, excluded) ==
    LET stops == {k \in i..Len(s) : CharAt(s, k) \in excluded}
    IN  IF stops = {} THEN Max(Len(s), i - 1) ELSE Min(stops) - 1

\* the text has the character class at position i
ClassAt(s, i, class) == i >= 1 /\ i <= Len(s) /\ CharAt(s, i) \in class

\* the text reads literal from position i on
LiteralAt(s, i, literal) ==
    /\ i + Len(literal) - 1 <= Len(s)
    /\ SubSeq(s, i, i + Len(literal) - 1) = literal

Match(end, group) == [end |-> end, group |-> group]

NoMatch == Match(0, "")

\* r"\$[\d,]+(?:\.\d{2})?"
CurrencyAt(s, i) ==
    LET a == RunEnd(s, i + 1, AmountChars)
        cents == /\ ClassAt(s, a + 1, {"."})
                 /\ ClassAt(s, a + 2, Digits)
                 /\ ClassAt(s, a + 3, Digits)
        e == IF cents THEN a + 3 ELSE a
    IN  IF ClassAt(s, i, {"$"}) /\ a > i THEN Match(e, SubSeq(s, i, e))
        ELSE NoMatch

RECURSIVE WordsEnd(_, _)

\* last position of the longest \w+(?:\s+\w+)* that starts at i
WordsEnd(s, i) ==
    LET e == RunEnd(s, i, WordChars)
        w == RunEnd(s, e + 1, Whitespace)
    IN  IF w > e /\ ClassAt(s, w + 1, WordChars) THEN WordsEnd(s, w + 1) ELSE e

\* r"(\w+(?:\s+\w+)*)\s*-\s*\$[\d,]+(?:\.\d{2})?"
NameDashPriceAt(s, i) ==
    IF ~ClassAt(s, i, WordChars) THEN NoMatch
    ELSE LET e == WordsEnd(s, i)
             dash == RunEnd(s, e + 1, Whitespace) + 1
             price == CurrencyAt(s, RunEnd(s, dash + 1, Whitespace) + 1)
         IN  IF ClassAt(s, dash, {"-"}) /\ price.end > 0
             THEN Match(price.end, SubSeq(s, i, e))
             ELSE NoMatch

\* r"Product:\s*([^,\n]+)"
ProductLabelAt(s, i) ==
    IF ~LiteralAt(s, i, "Product:") THEN NoMatch
    ELSE LET b == i + Len("Product:")
             w == RunEnd(s, b, Whitespace)
             starts == {k \in b..(w + 1) : /\ k <= Len(s)
                                           /\ CharAt(s, k) \notin {",", "\n"}}
         IN  IF starts = {} THEN NoMatch
             ELSE LET g == Largest(starts)
                      e == RunEndExcept(s, g, {",", "\n"})
                  IN  Match(e, SubSeq(s, g, e))

RECURSIVE CapitalizedEnd(_, _)

\* last position of the longest (?:\s+[A-Z][a-z]*)* that starts after e
CapitalizedEnd(s, e) ==
    LET w == RunEnd(s, e + 1, Whitespace)
    IN  IF w > e /\ ClassAt(s, w + 1, UpperLetters)
        THEN CapitalizedEnd(s, RunEnd(s, w + 2, LowerLetters))
        ELSE e

\* r"([A-Z][a-z]+(?:\s+[A-Z][a-z]*)*(?:\s+\d+)?)\s*\$[\d,]+"
CapitalizedPriceAt(s, i) ==
    IF ~(ClassAt(s, i, UpperLetters) /\ ClassAt(s, i + 1, LowerLetters))
    THEN NoMatch
    ELSE LET e == CapitalizedEnd(s, RunEnd(s, i + 1, LowerLetters))
             w == RunEnd(s, e + 1, Whitespace)
             n == RunEnd(s, w + 1, Digits)
             g == IF w > e /\ n > w THEN n ELSE e
             dollar == RunEnd(s, g + 1, Whitespace) + 1
             a == RunEnd(s, dollar + 1, AmountChars)
         IN  IF ClassAt(s, dollar, {"$"}) /\ a > dollar
             THEN Match(a, SubSeq(s, i, g))
             ELSE NoMatch

\* the words of (?:x|×|pieces?|units?|items?) and whether an s may follow
UnitWords == <<"x", "×", "piece", "unit", "item">>

\* r"(\d+)\s*(?:x|×|pieces?|units?|items?)"
CountUnitAt(s, i) ==
    IF ~ClassAt(s, i, Digits) THEN NoMatch
    ELSE LET e == RunEnd(s, i, Digits)
             u == RunEnd(s, e + 1, Whitespace) + 1
             words == {k \in 1..Len(UnitWords) : LiteralAt(s, u, UnitWords[k])}
         IN  IF words = {} THEN NoMatch
             ELSE LET k == Min(words)
                      last == u + Len(UnitWords[k]) - 1
                  IN  Match(IF k > 2 /\ ClassAt(s, last + 1, {"s"})
                            THEN last + 1 ELSE last,
                            SubSeq(s, i, e))

\* r"quantity[:\s]*(\d+)"
QuantityLabelAt(s, i) ==
    IF ~LiteralAt(s, i, "quantity") THEN NoMatch
    ELSE LET c == RunEnd(s, i + Len("quantity"), Whitespace \cup {":"})
             e == RunEnd(s, c + 1, Digits)
         IN  IF e > c THEN Match(e, SubSeq(s, c + 1, e)) ELSE NoMatch

\* r"(\d+)\s*of\s+"
CountOfAt(s, i) ==
    IF ~ClassAt(s, i, Digits) THEN NoMatch
    ELSE LET e == RunEnd(s, i, Digits)
             o == RunEnd(s, e + 1, Whitespace) + 1
             w == RunEnd(s, o + 2, Whitespace)
         IN  IF LiteralAt(s, o, "of") /\ w > o + 1
             THEN Match(w, SubSeq(s, i, e))
             ELSE NoMatch

\* r"take\s+(\d+)", r"want\s+(\d+)", r"buy\s+(\d+)"
VerbCountAt(s, i, verb) ==
    IF ~LiteralAt(s, i, verb) THEN NoMatch
    ELSE LET w == RunEnd(s, i + Len(verb), Whitespace)
             e == RunEnd(s, w + 1, Digits)
         IN  IF w >= i + Len(verb) /\ e > w
             THEN Match(e, SubSeq(s, w + 1, e))
             ELSE NoMatch

product_patterns ==
    <<"(\\w+(?:\\s+\\w+)*)\\s*-\\s*\\$[\\d,]+(?:\\.\\d{2})?",
      "Product:\\s*([^,\\n]+)",
      "([A-Z][a-z]+(?:\\s+[A-Z][a-z]*)*(?:\\s+\\d+)?)\\s*\\$[\\d,]+">>

price_pattern == "\\$[\\d,]+(?:\\.\\d{2})?"

quantity_patterns ==
    <<"(\\d+)\\s*(?:x|×|pieces?|units?|items?)",
      "quantity[:\\s]*(\\d+)",
      "(\\d+)\\s*of\\s+",
      "take\\s+(\\d+)",
      "want\\s+(\\d+)",
      "buy\\s+(\\d+)">>

\* an attempt to match the pattern at position i
MatchAt(pattern, s, i) ==
    CASE pattern = product_patterns[1] -> NameDashPriceAt(s, i)
      [] pattern = product_patterns[2] -> ProductLabelAt(s, i)
      [] pattern = product_patterns[3] -> CapitalizedPriceAt(s, i)
      [] pattern = price_pattern -> CurrencyAt(s, i)
      [] pattern = quantity_patterns[1] -> CountUnitAt(s, i)
      [] pattern = quantity_patterns[2] -> QuantityLabelAt(s, i)
      [] pattern = quantity_patterns[3] -> CountOfAt(s, i)
      [] pattern = quantity_patterns[4] -> VerbCountAt(s, i, "take")
      [] pattern = quantity_patterns[5] -> VerbCountAt(s, i, "want")
      [] pattern = quantity_patterns[6] -> VerbCountAt(s, i, "buy")

RECURSIVE FindAllFrom(_, _, _)

\* the scan after the attempt m at position i: a match is kept and the
\* search resumes behind it, a failure moves the search one character on
FindAllAfter(pattern, s, i, m) ==
    IF m.end > 0
    THEN <<m.group>> \o FindAllFrom(pattern, s, m.end + 1)
    ELSE FindAllFrom(pattern, s, i + 1)

\* the matches re.findall finds from position i on: leftmost first
FindAllFrom(pattern, s, i) ==
    IF i > Len(s) THEN <<>>
    ELSE FindAllAfter(pattern, s, i, MatchAt(pattern, s, i))

\* re.findall(pattern, s)
FindAll(pattern, s) == FindAllFrom(pattern, s, 1)

RECURSIVE Strip(_)

\* str.strip()
Strip(s) ==
    IF Len(s) = 0 THEN s
    ELSE IF CharAt(s, 1) \in Whitespace THEN Strip(SubSeq(s, 2, Len(s)))
    ELSE IF CharAt(s, Len(s)) \in Whitespace THEN Strip(SubSeq(s, 1, Len(s) - 1))
    ELSE s

RECURSIVE Remove(_, _)

\* s.replace(c, "") for each character c of chars
Remove(s, chars) ==
    IF Len(s) = 0 THEN s
    ELSE (IF CharAt(s, 1) \in chars THEN "" ELSE CharAt(s, 1))
         \o Remove(SubSeq(s, 2, Len(s)), chars)

DigitChars == <<"0", "1", "2", "3", "4", "5", "6", "7", "8", "9">>

DigitValue(c) == (CHOOSE k \in 1..10 : DigitChars[k] = c) - 1

RECURSIVE ToInt(_)

\* int(s) of a string of digits
ToInt(s) ==
    IF Len(s) = 0 THEN 0
    ELSE 10 * ToInt(SubSeq(s, 1, Len(s) - 1)) + DigitValue(CharAt(s, Len(s)))

\* A price: None, or a float, held as its number of cents
NoPrice == [none |-> TRUE, cents |-> 0]

Float(cents) == [none |-> FALSE, cents |-> cents]

\* float(price_str) raises ValueError: only the empty string among the
\* strings the price pattern leaves once '$' and ',' are removed
FloatRaises(price_str) == Len(price_str) = 0

\* float(price_str) of digits with an optional '.' and two digits
ToFloat(price_str) ==
    IF ClassAt(price_str, Len(price_str) - 2, {"."})
    THEN Float(100 * ToInt(SubSeq(price_str, 1, Len(price_str) - 3))
               + ToInt(SubSeq(price_str, Len(price_str) - 1, Len(price_str))))
    ELSE Float(100 * ToInt(price_str))

\* the truth value of context["price"]: None and 0.0 are false
Truthy(price) == ~price.none /\ price.cents # 0

-----------------------------------------------------------------------------
(* OrderAgent.extract_order_context *)

\* the context before the first turn is read; customer_info (the e-mail
\* address and telephone number found) is read by no handler and left out
InitialContext ==
    [product_name |-> None, quantity |-> 1, price |-> NoPrice,
     product_mentioned |-> <<>>, quantities_mentioned |-> <<>>]

RECURSIVE Candidates(_, _, _)

\* the findall results of the patterns from index k on, pattern by pattern
Candidates(patterns, s, k) ==
    IF k > Len(patterns) THEN <<>>
    ELSE FindAll(patterns[k], s) \o Candidates(patterns, s, k + 1)

\* a quantity range without the upper limit
InQuantityRange_NoUpperLimit(qty) == 1 <= qty

\* if 1 <= qty <= 100
InQuantityRange(qty) == 1 <= qty /\ qty <= 100

\* contents of the turns of the transcripts handed to the order agent
OrderTexts ==
    {"MacBook Pro - $1,999.00",
     "Free gift - $0",
     "iPhone 15 $999",
     "Total $,",
     "Product: Dell XPS, 2 units",
     "I want 3 of them",
     "take 150 units",
     "buy 5, no 7 items",
     "Quantity: 100"}

\* the text of a model response
ModelText == "Sure."

\* what the user types to a chatbot instance: a greeting, and a purchase
\* that names a price
ChatbotMessages == {"Hi there", "I'll take the $999 one"}

Contents ==
    OrderTexts \cup {PlainTurn.content, PricedTurn.content, StockTurn.content}
               \cup ChatbotMessages \cup {ModelText}

\* the findall results of one turn, computed once for each content
Scanned ==
    [content \in Contents |->
        [product_matches |-> Candidates(product_patterns, content, 1),
         price_matches |-> FindAll(price_pattern, content),
         quantity_matches |-> Candidates(quantity_patterns, Lower(content), 1)]]

\* what a turn with these matches appends to product_mentioned
ProductCandidates(matches) == [i \in 1..Len(matches) |-> Strip(matches[i])]

\* what a turn with these matches appends to quantities_mentioned
QuantityCandidates(matches) ==
    SelectSeq([i \in 1..Len(matches) |-> ToInt(matches[i])], InQuantityRange)

\* context["price"] after a turn with these price_matches
PriceAfter(price, price_matches) ==
    LET price_str == Remove(price_matches[1], {"$", ","})
    IN  IF price_matches # <<>> /\ ~Truthy(price) /\ ~FloatRaises(price_str)
        THEN ToFloat(price_str)
        ELSE price

\* the context after the matches of one message are taken in
AddMatches(context, matches) ==
    [context EXCEPT
        !.product_mentioned = @ \o ProductCandidates(matches.product_matches),
        !.price = PriceAfter(@, matches.price_matches),
        !.quantities_mentioned =
            @ \o QuantityCandidates(matches.quantity_matches)]

\* the body of the loop over chat_history[-10:]
ScanTurn(context, content) == AddMatches(context, Scanned[content])

RECURSIVE ScanTurns(_, _)

ScanTurns(context, turns) ==
    IF turns = <<>> THEN context
    ELSE ScanTurns(ScanTurn(context, Head(turns).content), Tail(turns))

\* the element the resolution takes: the first one
Latest_First(seq) == seq[1]

\* seq[-1]
Latest(seq) == seq[Len(seq)]

\* the resolution after the loop: the most recent candidates, if any
Resolve(context) ==
    [context EXCEPT
        !.product_name = IF context.product_mentioned # <<>>
                         THEN Latest(context.product_mentioned) ELSE @,
        !.quantity = IF context.quantities_mentioned # <<>>
                     THEN Latest(context.quantities_mentioned) ELSE @]

extract_order_context(history) ==
    Resolve(ScanTurns(InitialContext, LastN(history, 10)))

-----------------------------------------------------------------------------
(* Orders: OrderModel, the orders table and the product catalog             *)
(*                                                                         *)
(* Prices are the floats of the code held as whole thousandths, so that    *)
(* differences below and above the tolerance of 0.01 can be told apart.    *)

\* 0.01, the tolerance of validate_total_price
Tolerance == 10

\* a dollar amount in thousandths
Dollars(n) == 1000 * n

OrderStatus ==
    {"pending", "confirmed", "processing", "shipped", "delivered", "cancelled"}

Abs(x) == IF x < 0 THEN 0 - x ELSE x

\* a total price check that only rejects totals that are too high
validate_total_price_TooHighOnly(v, values) ==
    LET quantity == IF "quantity" \in DOMAIN values THEN values.quantity ELSE 0
        unit_price == IF "unit_price" \in DOMAIN values THEN values.unit_price
                      ELSE 0
    IN  v - quantity * unit_price <= Tolerance

\* OrderModel.validate_total_price accepts v; values holds the fields
\* validated before total_price
validate_total_price(v, values) ==
    LET quantity == IF "quantity" \in DOMAIN values THEN values.quantity ELSE 0
        unit_price == IF "unit_price" \in DOMAIN values THEN values.unit_price
                      ELSE 0
        expected_total == quantity * unit_price
    IN  Abs(v - expected_total) <= Tolerance

\* the fields of an OrderModel the model keeps
OrderFields(order_id, product_name, quantity, unit_price, total_price, status) ==
    [order_id |-> order_id, product_name |-> product_name,
     quantity |-> quantity, unit_price |-> unit_price,
     total_price |-> total_price, status |-> status]

\* the fields that pass their own constraint, as the validator of
\* total_price receives them
ValidValues(fields) ==
    [name \in {n \in {"quantity", "unit_price"} : fields[n] > 0} |-> fields[name]]

\* OrderModel(**fields) raises a validation error
OrderModelRaises(fields) ==
    \/ Len(fields.product_name) < 1
    \/ fields.quantity <= 0
    \/ fields.unit_price <= 0
    \/ fields.total_price <= 0
    \/ ~validate_total_price(fields.total_price, ValidValues(fields))
    \/ fields.status \notin OrderStatus

\* what a construction leaves: an instance, or no instance
NoOrder == [instance |-> FALSE]

OrderModel(fields) ==
    IF OrderModelRaises(fields) THEN NoOrder
    ELSE [instance |-> TRUE, fields |-> fields]

\* OrderRequest(product_name=..., quantity=...) raises a validation error
OrderRequestRaises(product_name, quantity) ==
    Len(product_name) < 1 \/ quantity <= 0

\* most rows of the orders table
MaxOrders == 2

\* the order IDs generate_order_id produces, in place of 'ORD-' + date + 8
\* random hexadecimal digits
OrderId(i) == "ORD-" \o DigitChars[i + 1]

OrderIds == {OrderId(i) : i \in 1..MaxOrders}

\* DatabaseManager.generate_order_id: an ID no row has; the order functions
\* treat all IDs alike, so the IDs are taken in their order
generate_order_id(table) == OrderId(Cardinality(DOMAIN table) + 1)

\* no order function entered yet
NoCall == [op |-> None]

\* the empty orders table
NoOrders == [id \in {} |-> NoOrder]

\* the ECommerceChatbot instances of the process
Chatbots == {"chatbot_1", "chatbot_2"}

\* ECommerceChatbot.__init__ of each instance: an empty chat history, and
\* the orchestrator object of the module src.agents.orchestrator
NoChatbots ==
    [bot \in Chatbots |-> [chat_history |-> <<>>, orchestrator |-> "orchestrator"]]

\* DatabaseManager.get_order: None, an OrderModel, or an exception
GetOrderRaises(table, order_id) ==
    order_id \in DOMAIN table /\ OrderModelRaises(table[order_id])

\* the order functions' results
Failure(error) == [success |-> FALSE, error |-> error]

CannotBeCancelled(status) ==
    Failure("cannot be cancelled (current status: " \o status \o ")")

\* a product of the catalog
Product(name, price, stock_status) ==
    [name |-> name, price |-> price, stock_status |-> stock_status]

Catalog ==
    {Product("MacBook Pro", Dollars(1999), "in_stock"),
     Product("iPhone 15", Dollars(999), "out_of_stock")}

\* the sequences that list every element of a set once
Orderings(S) ==
    {seq \in [1..Cardinality(S) -> S] :
        \A i, j \in 1..Cardinality(S) : i # j => seq[i] # seq[j]}

\* vector_store.search_products(query, n_results=5): the nearest products
\* of the catalog in the order of their distance to the query, which no
\* code of the repository determines; nothing when the collection is empty
SearchResults == Orderings(Catalog) \cup {<<>>}

\* the for loop that picks target_product: the first result whose name
\* equals or contains product_name (in lower case), else the first result
TargetProduct(products, product_name) ==
    LET hits == {i \in 1..Len(products) :
                    Contains(Lower(products[i].name), Lower(product_name))}
    IN  IF hits = {} THEN products[1] ELSE products[Min(hits)]

\* a status list that lets shipped orders be cancelled
Uncancellable_DeliveredOrCancelled == {"delivered", "cancelled"}

\* the statuses cancel_order refuses
Uncancellable == {"shipped", "delivered", "cancelled"}

\* most orders the tool calls of the conversation turns place
MaxPlaced == 1

\* the fields of the order create_order(product_name, quantity) hands to
\* db_manager.create_order when the search returns products, or NoOrder when
\* it returns before line 83
CreatedOrder(product_name, quantity, products) ==
    IF OrderRequestRaises(product_name, quantity) \/ products = <<>>
    THEN NoOrder
    ELSE LET target_product == TargetProduct(products, product_name)
             unit_price == target_product.price
             fields == OrderFields("", target_product.name, quantity,
                                   unit_price, unit_price * quantity, "pending")
         IN  IF target_product.stock_status # "in_stock" \/ OrderModelRaises(fields)
             THEN NoOrder
             ELSE fields

-----------------------------------------------------------------------------
(* Routing alone: determine_agent applied to one message and transcript *)

NoResult == [returned |-> FALSE]

\* no model response received (yet)
NoResponse == [returned |-> FALSE]

InitRoute ==
    /\ conversation_state = "product_inquiry"
    /\ current_agent = None
    /\ pc = "route_call"
    /\ message \in RouteMessages
    /\ chat_history \in RouteHistories
    /\ selected_agent = None
    /\ order_context = InitialContext
    /\ orders = NoOrders
    /\ order = NoOrder
    /\ order_call = NoCall
    /\ chatbots = NoChatbots
    /\ active_chatbot = None
    /\ response_message = NoResponse
    /\ pending_calls = <<>>
    /\ invoked = <<>>
    /\ messages = <<>>
    /\ function_results = <<>>
    /\ requests = <<>>
    /\ result = NoResult
    /\ last_call = None
    /\ entry = [conversation_state |-> "product_inquiry", current_agent |-> None,
               orders |-> NoOrders]

DetermineAgentCall ==
    /\ pc = "route_call"
    /\ UNCHANGED order_vars
    /\ UNCHANGED chatbot_vars
    /\ ~determine_agent_raises(message, chat_history)
    /\ selected_agent' = determine_agent(message, chat_history)
    /\ pc' = "route_done"
    /\ UNCHANGED <<conversation_state, current_agent, message, chat_history,
                   order_context, response_message, pending_calls, invoked,
                   messages, function_results, requests, result, last_call,
                   entry>>

NextRoute == DetermineAgentCall

SpecRoute == InitRoute /\ [][NextRoute]_vars

-----------------------------------------------------------------------------
(* Routing from every state of the orchestrator, on transcripts with turns  *)
(* older than the last five                                                 *)

\* most turns before the last five turns of a transcript
MaxOlder == 2

\* the values process_message and reset_conversation_state leave in
\* conversation_state and current_agent
ConversationStates == {"product_inquiry", "order_processing"}

CurrentAgents == {None, "rag_agent", "order_agent"}

\* five recent turns, preceded by up to MaxOlder turns of any kind
MemoryHistories ==
    {older \o recent :
        older \in SeqsUpTo({PlainTurn, PricedTurn, PlainDict}, MaxOlder),
        recent \in [1..5 -> {PlainTurn, PricedTurn}]}

MemoryMessages == {"Tell me more", "I'll take it", "I need it"}

InitMemory ==
    /\ conversation_state \in ConversationStates
    /\ current_agent \in CurrentAgents
    /\ pc = "route_call"
    /\ message \in MemoryMessages
    /\ chat_history \in MemoryHistories
    /\ selected_agent = None
    /\ order_context = InitialContext
    /\ orders = NoOrders
    /\ order = NoOrder
    /\ order_call = NoCall
    /\ chatbots = NoChatbots
    /\ active_chatbot = None
    /\ response_message = NoResponse
    /\ pending_calls = <<>>
    /\ invoked = <<>>
    /\ messages = <<>>
    /\ function_results = <<>>
    /\ requests = <<>>
    /\ result = NoResult
    /\ last_call = None
    /\ entry = [conversation_state |-> conversation_state,
                current_agent |-> current_agent, orders |-> orders]

NextMemory == DetermineAgentCall

SpecMemory == InitMemory /\ [][NextMemory]_vars

-----------------------------------------------------------------------------
(* Tool calls *)

\* a function_map of the order agent that registers update_order_status too
function_map_WithStatusUpdate(agent) ==
    IF agent = "order_agent"
    THEN {"create_order", "get_order_status", "validate_order_details",
          "cancel_order", "update_order_status"}
    ELSE {"search_products", "get_product_details",
          "check_product_availability", "get_products_by_category"}

\* OrderAgent.function_map, RAGAgent.function_map
function_map(agent) ==
    IF agent = "order_agent"
    THEN {"create_order", "get_order_status", "validate_order_details",
          "cancel_order"}
    ELSE {"search_products", "get_product_details",
          "check_product_availability", "get_products_by_category"}

\* parameters of the handlers without a default value
RequiredParams ==
    [create_order |-> {"product_name"},
     get_order_status |-> {"order_id"},
     validate_order_details |-> {"product_name", "quantity"},
     cancel_order |-> {"order_id"},
     search_products |-> {"query"},
     get_product_details |-> {"product_id"},
     check_product_availability |-> {"product_name"},
     get_products_by_category |-> {"category"}]

\* "required" of the tool schemas (ORDER_FUNCTION_SCHEMAS,
\* PRODUCT_FUNCTION_SCHEMAS)
SchemaRequired ==
    [create_order |-> {"product_name"},
     get_order_status |-> {"order_id"},
     validate_order_details |-> {"product_name"},
     cancel_order |-> {"order_id"},
     search_products |-> {"query"},
     get_product_details |-> {"product_id"},
     check_product_availability |-> {"product_name"},
     get_products_by_category |-> {"category"}]

\* parameters of the handlers with a default value
OptionalParams ==
    [create_order |-> {"quantity", "customer_info"},
     get_order_status |-> {},
     validate_order_details |-> {},
     cancel_order |-> {"reason"},
     search_products |-> {"category", "max_results", "price_min", "price_max"},
     get_product_details |-> {},
     check_product_availability |-> {},
     get_products_by_category |-> {"limit"}]

\* handler(**function_args) binds its parameters (no TypeError)
Binds(name, arguments) ==
    /\ RequiredParams[name] \subseteq DOMAIN arguments
    /\ DOMAIN arguments \subseteq RequiredParams[name] \cup OptionalParams[name]

\* a tool call of a model response: json is "object" when
\* json.loads(tool_call.function.arguments) yields the dict arguments
ToolCall(name, json, arguments) ==
    [name |-> name, json |-> json, arguments |-> arguments]

NoArguments == [k \in {} |-> k]

ToolCallRequests ==
    {ToolCall("create_order", "object",
              [product_name |-> "MacBook", quantity |-> 1]),
     ToolCall("get_order_status", "object", [order_id |-> "ORD-1"]),
     ToolCall("search_products", "object", [query |-> "laptop"]),
     ToolCall("refund_order", "object", [order_id |-> "ORD-1"]),
     ToolCall("cancel_order", "object", [id |-> "ORD-1"]),
     ToolCall("create_order", "invalid", NoArguments),
     ToolCall("create_order", "object", [quantity |-> 3]),
     ToolCall("create_order", "object", [product_name |-> "iPad"]),
     ToolCall("validate_order_details", "object", [product_name |-> "MacBook"])}

\* the tool_calls a model response can carry
ToolCallLists == SeqsUpTo(ToolCallRequests, MaxToolCalls) \ {<<>>}

\* an element of function_results
FunctionResult(name, arguments, res) ==
    [name |-> name, arguments |-> arguments, result |-> res]

\* an error_result that does not name the function
UnknownFunction_NoName(name) ==
    [success |-> FALSE, error |-> "Unknown function"]

\* error_result of an unregistered name
UnknownFunction(name) ==
    [success |-> FALSE, error |-> "Unknown function: " \o name]

-----------------------------------------------------------------------------
(* Results of an agent turn *)

\* the except clause of process_message of an agent
AgentError(agent, err) ==
    [success |-> FALSE, agent |-> agent, response |-> "I apologize: " \o err,
     error |-> err, function_calls |-> <<>>]

\* an except clause that drops the records gathered so far
HandleError_NoResults(agent, err, results) ==
    [success |-> FALSE, agent |-> agent, response |-> "I encountered: " \o err,
     error |-> err, function_calls |-> <<>>]

\* the except clause of _handle_function_calls
HandleError(agent, err, results) ==
    [success |-> FALSE, agent |-> agent, response |-> "I encountered: " \o err,
     error |-> err, function_calls |-> results]

\* a direct response that loses the model's text
DirectResponse_NoText(agent, text) ==
    [success |-> TRUE, agent |-> agent, response |-> None,
     function_calls |-> <<>>, metadata |-> [type |-> "direct_response"]]

\* the return of process_message without tool calls
DirectResponse(agent, text) ==
    [success |-> TRUE, agent |-> agent, response |-> text,
     function_calls |-> <<>>, metadata |-> [type |-> "direct_response"]]

\* the return of _handle_function_calls
FunctionCallingResponse(agent, text, results) ==
    [success |-> TRUE, agent |-> agent, response |-> text,
     function_calls |-> results,
     metadata |-> [type |-> "function_calling",
                   functions_used |-> [i \in 1..Len(results) |-> results[i].name]]]

\* _build_messages (and extract_order_context of the order agent) read role
\* and content of the last 10 turns
BuildMessagesRaises(h) ==
    \E i \in 1..Len(LastN(h, 10)) : ~IsChatMessage(LastN(h, 10)[i])

-----------------------------------------------------------------------------
(* ConversationOrchestrator.process_message *)

StateFor(agent) ==
    IF agent = "order_agent" THEN "order_processing" ELSE "product_inquiry"

\* the except clause of process_message
OrchestratorError(err, state) ==
    [success |-> FALSE, agent |-> "orchestrator",
     response |-> "I apologize, but I encountered an error: " \o err,
     error |-> err,
     orchestrator |-> [selected_agent |-> None,
                       conversation_state |-> state,
                       error |-> "orchestrator_error"]]

\* any tool call that reports success counted as an order creation
OrderCreated_AnyCall(res) ==
    /\ res.success
    /\ \E i \in 1..Len(res.function_calls) :
          res.function_calls[i].result.success

\* an order agent result with a create_order call that reports success
OrderCreated(res) ==
    /\ res.success
    /\ \E i \in 1..Len(res.function_calls) :
          /\ res.function_calls[i].name = "create_order"
          /\ res.function_calls[i].result.success

\* lines 71-92: the handoff fields put on the agent's result
WithHandoff(agent, res, m, h) ==
    IF agent = "order_agent"
    THEN IF OrderCreated(res)
         THEN [handoff_occurred |-> TRUE, handoff_from |-> "rag_agent",
               handoff_to |-> "order_agent"] @@ res
         ELSE res
    ELSE IF should_handoff_to_order_agent(m, h)
         THEN [handoff_suggested |-> TRUE,
               suggested_handoff_to |-> "order_agent"] @@ res
         ELSE res

\* the metadata attached to successful results only
WithOrchestrator_OnSuccessOnly(agent, state, res, h) ==
    IF res.success
    THEN [orchestrator |-> [selected_agent |-> agent,
                            conversation_state |-> state,
                            has_product_context |-> has_product_context(h)]] @@ res
    ELSE res

\* lines 94-98
WithOrchestrator(agent, state, res, h) ==
    [orchestrator |-> [selected_agent |-> agent,
                       conversation_state |-> state,
                       has_product_context |-> has_product_context(h)]] @@ res

\* The rest of process_message once the agent has returned res: the result is
\* annotated and returned, current_agent is written; computing
\* has_product_context may raise, which the except clause turns into a result.
AgentReturns(agent, res, m, h) ==
    /\ pc' = "idle"
    /\ last_call' = "process_message"
    /\ pending_calls' = <<>>
    /\ IF has_product_context_raises(h)
       THEN /\ result' = OrchestratorError("AttributeError", conversation_state')
            /\ UNCHANGED current_agent
       ELSE /\ result' = WithOrchestrator(agent, conversation_state',
                                          WithHandoff(agent, res, m, h), h)
            /\ current_agent' = agent

\* a caller enters process_message(m, h)
CallProcessMessage(m, h) ==
    /\ pc = "idle"
    /\ UNCHANGED order_vars
    /\ pc' = "process_message"
    /\ message' = m
    /\ chat_history' = h
    /\ entry' = [conversation_state |-> conversation_state,
                 current_agent |-> current_agent, orders |-> orders]
    /\ selected_agent' = None
    /\ order_context' = InitialContext
    /\ response_message' = NoResponse
    /\ invoked' = <<>>
    /\ messages' = <<>>
    /\ function_results' = <<>>
    /\ requests' = <<>>
    /\ result' = NoResult
    /\ UNCHANGED <<conversation_state, current_agent, pending_calls, last_call>>

\* process_message up to the first model request of the selected agent:
\* routing, the write of conversation_state, and the agent building its
\* message list
ProcessMessage ==
    /\ pc = "process_message"
    /\ UNCHANGED order_vars
    /\ UNCHANGED chatbot_vars
    /\ UNCHANGED <<message, chat_history, entry, response_message, invoked,
                   messages, function_results, requests>>
    /\ IF determine_agent_raises(message, chat_history)
       THEN /\ result' = OrchestratorError("AttributeError", conversation_state)
            /\ pc' = "idle"
            /\ last_call' = "process_message"
            /\ UNCHANGED <<conversation_state, current_agent, selected_agent,
                           order_context, pending_calls>>
       ELSE LET agent == determine_agent(message, chat_history) IN
            /\ selected_agent' = agent
            /\ conversation_state' = StateFor(agent)
            /\ IF BuildMessagesRaises(chat_history)
               THEN /\ AgentReturns(agent, AgentError(agent, "AttributeError"),
                                    message, chat_history)
                    /\ UNCHANGED order_context
               ELSE /\ order_context' =
                           IF agent = "order_agent"
                           THEN extract_order_context(chat_history)
                           ELSE order_context
                    /\ pc' = "first_request"
                    /\ UNCHANGED <<current_agent, pending_calls, result,
                                   last_call>>

\* a request to the model: whether tools are offered and how many tool
\* results the message list holds
Request(tools, tool_messages) == [tools |-> tools, tool_messages |-> tool_messages]

\* a model response: its text and its tool calls
ResponseMessage(content, calls) ==
    [returned |-> TRUE, content |-> content, tool_calls |-> calls]

\* the assistant message that opens _handle_function_calls
AssistantMessage(response) ==
    [role |-> "assistant", content |-> response.content,
     tool_calls |-> [i \in 1..Len(response.tool_calls) |->
                        response.tool_calls[i].name]]

\* the message that carries the result of the tool call at position id
ToolMessage(id, res) == [role |-> "tool", tool_call_id |-> id, content |-> res]

\* the tool messages of a message list
ToolMessages(msgs) == SelectSeq(msgs, LAMBDA msg : msg.role = "tool")

\* the first completion request of the agent raises, or returns a response
\* without or with tool calls
FirstRequest ==
    /\ pc = "first_request"
    /\ UNCHANGED order_vars
    /\ UNCHANGED chatbot_vars
    /\ requests' = Append(requests, Request(TRUE, 0))
    /\ UNCHANGED <<message, chat_history, selected_agent, entry,
                   conversation_state, function_results, invoked,
                   order_context>>
    /\ \/ /\ AgentReturns(selected_agent, AgentError(selected_agent, "APIError"),
                          message, chat_history)
          /\ UNCHANGED <<response_message, messages>>
       \/ /\ response_message' = ResponseMessage(ModelText, <<>>)
          /\ AgentReturns(selected_agent,
                          DirectResponse(selected_agent, response_message'.content),
                          message, chat_history)
          /\ UNCHANGED messages
       \/ \E calls \in ToolCallLists :
            /\ response_message' = ResponseMessage(ModelText, calls)
            /\ pending_calls' = calls
            /\ messages' = Append(messages, AssistantMessage(response_message'))
            /\ pc' = "tool_calls"
            /\ UNCHANGED <<current_agent, result, last_call>>

\* order_context["product_name"] is true: neither None nor ''
HasProductName(context) ==
    context.product_name # None /\ context.product_name # ""

\* an auto-fill that takes the product name of the context whenever it has one
FillArguments_FromContextFirst(name, arguments, context) ==
    IF name # "create_order" THEN arguments
    ELSE (IF HasProductName(context)
          THEN [product_name |-> context.product_name] ELSE NoArguments)
         @@ arguments @@ [quantity |-> context.quantity]

\* lines 289-294 of the order agent: function_args after the auto-fill
FillArguments(name, arguments, context) ==
    IF name # "create_order" THEN arguments
    ELSE arguments
         @@ (IF HasProductName(context)
             THEN [product_name |-> context.product_name] ELSE NoArguments)
         @@ [quantity |-> context.quantity]

\* function_args as the loop of the agent hands them to the handler; the
\* rag agent passes them on as they are
FunctionArgs(agent, call, context) ==
    IF agent = "order_agent"
    THEN FillArguments(call.name, call.arguments, context)
    ELSE call.arguments

\* a record put at the front of function_results
AppendResult_AtFront(results, record) == <<record>> \o results

\* function_results.append
AppendResult(results, record) == Append(results, record)

\* One iteration of the loop over response_message.tool_calls; a create_order
\* call the handler accepts runs the order function on the search results of
\* the catalog and commits the order it places, get_order_status finds the
\* orders that are stored, cancel_order cancels a stored order that can be
\* cancelled; each of them may fail on the database
ExecuteToolCall ==
    /\ pc = "tool_calls"
    /\ UNCHANGED <<order, order_call>>
    /\ UNCHANGED chatbot_vars
    /\ UNCHANGED <<message, chat_history, selected_agent, entry,
                   conversation_state, requests, response_message,
                   order_context>>
    /\ LET call == Head(pending_calls)
           id == Len(response_message.tool_calls) - Len(pending_calls) + 1
           known == call.name \in function_map(selected_agent)
           function_args == FunctionArgs(selected_agent, call, order_context)
           continue(res) ==
               /\ function_results' =
                      AppendResult(function_results,
                                   FunctionResult(call.name, function_args, res))
               /\ messages' = Append(messages, ToolMessage(id, res))
               /\ pending_calls' = Tail(pending_calls)
               /\ pc' = IF Len(pending_calls) = 1 THEN "second_request"
                        ELSE "tool_calls"
               /\ UNCHANGED <<current_agent, result, last_call>>
       IN  IF call.json = "invalid"
           THEN /\ AgentReturns(selected_agent,
                       HandleError(selected_agent, "JSONDecodeError",
                                   function_results),
                       message, chat_history)
                /\ UNCHANGED <<function_results, invoked, messages, orders>>
           ELSE IF ~known
           THEN /\ continue(UnknownFunction(call.name))
                /\ UNCHANGED <<invoked, orders>>
           ELSE IF ~Binds(call.name, function_args)
           THEN /\ AgentReturns(selected_agent,
                       HandleError(selected_agent, "TypeError", function_results),
                       message, chat_history)
                /\ UNCHANGED <<function_results, invoked, messages, orders>>
           ELSE IF call.name = "create_order"
           THEN /\ invoked' = Append(invoked, id)
                /\ \E products \in SearchResults :
                      LET fields == CreatedOrder(function_args.product_name,
                                                 function_args.quantity, products)
                          order_id == generate_order_id(orders)
                      IN  IF fields = NoOrder
                          THEN /\ continue([success |-> FALSE])
                               /\ UNCHANGED orders
                          ELSE /\ Cardinality(DOMAIN orders) < MaxPlaced
                               /\ orders' = orders @@
                                      (order_id :> [fields EXCEPT !.order_id = order_id])
                               /\ continue([success |-> TRUE])
           ELSE IF call.name = "get_order_status"
           THEN /\ invoked' = Append(invoked, id)
                /\ UNCHANGED orders
                /\ \E ok \in {FALSE, function_args.order_id \in DOMAIN orders} :
                      continue([success |-> ok])
           ELSE IF call.name = "cancel_order"
           THEN /\ invoked' = Append(invoked, id)
                /\ \/ /\ continue([success |-> FALSE])
                      /\ UNCHANGED orders
                   \/ /\ function_args.order_id \in DOMAIN orders
                      /\ orders[function_args.order_id].status \notin Uncancellable
                      /\ orders' = [orders EXCEPT
                                       ![function_args.order_id].status = "cancelled"]
                      /\ continue([success |-> TRUE])
           ELSE /\ invoked' = Append(invoked, id)
                /\ UNCHANGED orders
                /\ \E ok \in BOOLEAN : continue([success |-> ok])

\* a final request that offers the tools again
FinalRequest_WithTools(msgs) == Request(TRUE, Len(ToolMessages(msgs)))

\* the request of the final completion: the message list, no tools
FinalRequest(msgs) == Request(FALSE, Len(ToolMessages(msgs)))

\* the final completion request raises or returns
SecondRequest ==
    /\ pc = "second_request"
    /\ UNCHANGED order_vars
    /\ UNCHANGED chatbot_vars
    /\ requests' = Append(requests, FinalRequest(messages))
    /\ UNCHANGED <<message, chat_history, selected_agent, entry,
                   conversation_state, function_results, response_message,
                   invoked, messages, order_context>>
    /\ \/ AgentReturns(selected_agent,
              HandleError(selected_agent, "APIError", function_results),
              message, chat_history)
       \/ AgentReturns(selected_agent,
              FunctionCallingResponse(selected_agent, ModelText, function_results),
              message, chat_history)

\* a reset that leaves current_agent alone
reset_conversation_state_KeepsAgent ==
    /\ pc = "idle"
    /\ UNCHANGED order_vars
    /\ entry' = [conversation_state |-> conversation_state,
                 current_agent |-> current_agent, orders |-> orders]
    /\ conversation_state' = "product_inquiry"
    /\ last_call' = "reset_conversation_state"
    /\ UNCHANGED <<pc, message, chat_history, selected_agent, order_context,
                   response_message, pending_calls, invoked, messages,
                   function_results, requests, result, current_agent>>

\* ConversationOrchestrator.reset_conversation_state
reset_conversation_state ==
    /\ pc = "idle"
    /\ UNCHANGED order_vars
    /\ entry' = [conversation_state |-> conversation_state,
                 current_agent |-> current_agent, orders |-> orders]
    /\ current_agent' = None
    /\ conversation_state' = "product_inquiry"
    /\ last_call' = "reset_conversation_state"
    /\ UNCHANGED <<pc, message, chat_history, selected_agent, order_context,
                   response_message, pending_calls, invoked, messages,
                   function_results, requests, result>>

-----------------------------------------------------------------------------
(* The orchestrator and its callers *)

CallMessages == {"Tell me more", "I'll take it", "I need it", "ORD-20241213-ABC12345"}

CallHistories == SeqsUpTo({PlainTurn, PricedTurn, PlainDict}, MaxTurns)

\* ConversationOrchestrator.__init__
Init ==
    /\ conversation_state = "product_inquiry"
    /\ current_agent = None
    /\ pc = "idle"
    /\ message = ""
    /\ chat_history = <<>>
    /\ selected_agent = None
    /\ order_context = InitialContext
    /\ orders = NoOrders
    /\ order = NoOrder
    /\ order_call = NoCall
    /\ chatbots = NoChatbots
    /\ active_chatbot = None
    /\ response_message = NoResponse
    /\ pending_calls = <<>>
    /\ invoked = <<>>
    /\ messages = <<>>
    /\ function_results = <<>>
    /\ requests = <<>>
    /\ result = NoResult
    /\ last_call = None
    /\ entry = [conversation_state |-> "product_inquiry", current_agent |-> None,
               orders |-> NoOrders]

Caller ==
    /\ \E m \in CallMessages, h \in CallHistories : CallProcessMessage(m, h)
    /\ UNCHANGED chatbot_vars

Resetter ==
    /\ reset_conversation_state
    /\ UNCHANGED chatbot_vars

Next ==
    \/ Caller
    \/ ProcessMessage
    \/ FirstRequest
    \/ ExecuteToolCall
    \/ SecondRequest
    \/ Resetter

Spec == Init /\ [][Next]_vars

-----------------------------------------------------------------------------
(* The chatbot instances and their users *)

\* settings.max_chat_history
max_chat_history == 50

\* longest chat history an instance holds
MaxChat == 2

\* ECommerceChatbot.add_message_to_history
add_message_to_history(history, role, content) ==
    LET appended == Append(history, ChatMessage(role, content))
    IN  IF Len(appended) > max_chat_history
        THEN LastN(appended, max_chat_history)
        ELSE appended

\* the state of the orchestrator object an instance refers to; the module
\* holds one such object
OrchestratorOf(bot) ==
    IF chatbots[bot].orchestrator = "orchestrator"
    THEN [conversation_state |-> conversation_state,
          current_agent |-> current_agent]
    ELSE [conversation_state |-> None, current_agent |-> None]

\* ECommerceChatbot.process_user_message up to the call of the orchestrator:
\* the user message is added to the history, then the message and the
\* history are handed to process_message
process_user_message(bot, m) ==
    /\ active_chatbot = None
    /\ Len(chatbots[bot].chat_history) + 2 <= MaxChat
    /\ LET history == add_message_to_history(chatbots[bot].chat_history, "user", m)
       IN  /\ chatbots' = [chatbots EXCEPT ![bot].chat_history = history]
           /\ CallProcessMessage(m, history)
    /\ active_chatbot' = bot

\* the rest of process_user_message once the orchestrator has returned: the
\* response of a successful turn is added to the history
ProcessUserMessageReturns ==
    /\ pc = "idle"
    /\ active_chatbot # None
    /\ chatbots' = [chatbots EXCEPT ![active_chatbot].chat_history =
                       IF result.success
                       THEN add_message_to_history(@, "assistant", result.response)
                       ELSE @]
    /\ active_chatbot' = None
    /\ UNCHANGED <<pc, result, last_call>>
    /\ UNCHANGED turn_vars
    /\ UNCHANGED order_vars

\* ECommerceChatbot.reset_conversation
reset_conversation(bot) ==
    /\ active_chatbot = None
    /\ chatbots' = [chatbots EXCEPT ![bot].chat_history = <<>>]
    /\ reset_conversation_state
    /\ UNCHANGED active_chatbot

User ==
    \E bot \in Chatbots, m \in ChatbotMessages : process_user_message(bot, m)

ResetUser == \E bot \in Chatbots : reset_conversation(bot)

NextChatbot ==
    \/ User
    \/ ProcessMessage
    \/ FirstRequest
    \/ ExecuteToolCall
    \/ SecondRequest
    \/ ProcessUserMessageReturns
    \/ ResetUser

SpecChatbot == Init /\ [][NextChatbot]_vars

-----------------------------------------------------------------------------
(* extract_order_context alone, applied to one transcript *)

\* most turns between the oldest turn and the recent turns of a transcript
MaxPad == 10

\* most recent turns of a transcript
MaxRecent == 2

OrderTurns == {ChatMessage("assistant", text) : text \in OrderTexts}

\* n turns without a product, a price or a quantity
Pad(n) == [i \in 1..n |-> PlainTurn]

\* an older turn or none, then up to MaxPad plain turns, then recent turns
ExtractHistories ==
    {old \o Pad(n) \o recent :
        old \in SeqsUpTo(OrderTurns, 1), n \in 0..MaxPad,
        recent \in SeqsUpTo(OrderTurns \cup {PlainTurn}, MaxRecent)}

InitExtract ==
    /\ conversation_state = "product_inquiry"
    /\ current_agent = None
    /\ pc = "extract_call"
    /\ message = ""
    /\ chat_history \in ExtractHistories
    /\ selected_agent = None
    /\ order_context = InitialContext
    /\ orders = NoOrders
    /\ order = NoOrder
    /\ order_call = NoCall
    /\ chatbots = NoChatbots
    /\ active_chatbot = None
    /\ response_message = NoResponse
    /\ pending_calls = <<>>
    /\ invoked = <<>>
    /\ messages = <<>>
    /\ function_results = <<>>
    /\ requests = <<>>
    /\ result = NoResult
    /\ last_call = None
    /\ entry = [conversation_state |-> "product_inquiry", current_agent |-> None,
               orders |-> NoOrders]

ExtractOrderContextCall ==
    /\ pc = "extract_call"
    /\ UNCHANGED order_vars
    /\ UNCHANGED chatbot_vars
    /\ order_context' = extract_order_context(chat_history)
    /\ pc' = "extract_done"
    /\ UNCHANGED <<conversation_state, current_agent, message, chat_history,
                   selected_agent, response_message, pending_calls, invoked,
                   messages, function_results, requests, result, last_call,
                   entry>>

NextExtract == ExtractOrderContextCall

SpecExtract == InitExtract /\ [][NextExtract]_vars

-----------------------------------------------------------------------------
(* The order functions and their callers *)

\* the arguments the callers pass
OrderNames == {"MacBook Pro", "iphone", "Nokia", ""}

OrderQuantities == {0, 2}

StatusNames == {"Shipped", "delivered", "lost"}

\* target_product of each search result and product name, computed once
Targets ==
    [search \in (SearchResults \ {<<>>}) \X OrderNames |->
        TargetProduct(search[1], search[2])]

\* new_status.lower() of each status name, computed once
LowerStatus == [new_status \in StatusNames |-> Lower(new_status)]

\* asdict(OrderCreationResponse(success=False, order_id=None, error=...))
CreationFailure(error) == [success |-> FALSE, order_id |-> None, error |-> error]

\* an order function other than cancel_order returns res
OrderFunctionReturns(name, res) ==
    /\ result' = res
    /\ last_call' = name
    /\ UNCHANGED pc

\* create_order(product_name, quantity) with products as the search results;
\* an order is stored while the table has room
create_order(product_name, quantity, products) ==
    /\ pc \in {"idle", "cancel_write"}
    /\ UNCHANGED turn_vars
    /\ UNCHANGED chatbot_vars
    /\ order_call' = IF pc = "idle"
                     THEN [op |-> "create_order", product_name |-> product_name,
                           quantity |-> quantity]
                     ELSE order_call
    /\ IF OrderRequestRaises(product_name, quantity)
       THEN /\ OrderFunctionReturns("create_order",
                                    CreationFailure("validation error"))
            /\ UNCHANGED <<orders, order>>
       ELSE IF products = <<>>
       THEN /\ OrderFunctionReturns("create_order",
                                    CreationFailure("not found in catalog"))
            /\ UNCHANGED <<orders, order>>
       ELSE LET target_product == Targets[<<products, product_name>>]
                unit_price == target_product.price
                total_price == unit_price * quantity
                fields == OrderFields("", target_product.name, quantity,
                                      unit_price, total_price, "pending")
            IN  IF target_product.stock_status # "in_stock"
                THEN /\ OrderFunctionReturns("create_order",
                            CreationFailure("is currently "
                                            \o target_product.stock_status))
                     /\ UNCHANGED <<orders, order>>
                ELSE IF OrderModelRaises(fields)
                THEN /\ OrderFunctionReturns("create_order",
                            CreationFailure("validation error"))
                     /\ order' = NoOrder
                     /\ UNCHANGED orders
                ELSE LET order_id == generate_order_id(orders)
                         stored == [fields EXCEPT !.order_id = order_id]
                     IN /\ Cardinality(DOMAIN orders) < MaxOrders
                        /\ order' = OrderModel(stored)
                        /\ orders' = orders @@ (order_id :> stored)
                        /\ OrderFunctionReturns("create_order",
                               [success |-> TRUE, order_id |-> order_id,
                                product_name |-> stored.product_name,
                                quantity |-> quantity,
                                unit_price |-> unit_price,
                                total_price |-> total_price,
                                status |-> "pending"])

\* update_order_status(order_id, new_status)
update_order_status(order_id, new_status) ==
    /\ pc \in {"idle", "cancel_write"}
    /\ UNCHANGED turn_vars
    /\ UNCHANGED chatbot_vars
    /\ UNCHANGED <<order, order_call>>
    /\ IF LowerStatus[new_status] \notin OrderStatus
       THEN /\ OrderFunctionReturns("update_order_status",
                                    Failure("Invalid status"))
            /\ UNCHANGED orders
       ELSE IF order_id \notin DOMAIN orders
       THEN /\ OrderFunctionReturns("update_order_status", Failure("not found"))
            /\ UNCHANGED orders
       ELSE /\ orders' = [orders EXCEPT
                             ![order_id].status = LowerStatus[new_status]]
            /\ OrderFunctionReturns("update_order_status",
                   [success |-> TRUE, order_id |-> order_id,
                    new_status |-> LowerStatus[new_status]])

\* cancel_order(order_id) up to its status check: db_manager.get_order and
\* the two early returns
cancel_order(order_id) ==
    /\ pc = "idle"
    /\ UNCHANGED turn_vars
    /\ UNCHANGED chatbot_vars
    /\ UNCHANGED orders
    /\ order_call' = [op |-> "cancel_order", order_id |-> order_id]
    /\ LET returns(res) ==
               /\ result' = res
               /\ last_call' = "cancel_order"
               /\ UNCHANGED pc
       IN  IF GetOrderRaises(orders, order_id)
           THEN /\ returns(Failure("Failed to retrieve order"))
                /\ order' = NoOrder
           ELSE IF order_id \notin DOMAIN orders
           THEN /\ returns(Failure("not found"))
                /\ UNCHANGED order
           ELSE /\ order' = OrderModel(orders[order_id])
                /\ IF order'.fields.status \in Uncancellable
                   THEN returns(CannotBeCancelled(order'.fields.status))
                   ELSE /\ pc' = "cancel_write"
                        /\ UNCHANGED <<result, last_call>>

\* the rest of cancel_order: db_manager.update_order_status(order_id,
\* OrderStatus.CANCELLED) and the return
CancelOrderWrite ==
    /\ pc = "cancel_write"
    /\ pc' = "idle"
    /\ last_call' = "cancel_order"
    /\ UNCHANGED turn_vars
    /\ UNCHANGED chatbot_vars
    /\ UNCHANGED <<order, order_call>>
    /\ IF order_call.order_id \in DOMAIN orders
       THEN /\ orders' = [orders EXCEPT ![order_call.order_id].status = "cancelled"]
            /\ result' = [success |-> TRUE, order_id |-> order_call.order_id,
                          status |-> "cancelled"]
       ELSE /\ result' = Failure("Failed to cancel order")
            /\ UNCHANGED orders

\* OrderModel(**order_data), as the tests construct it
ConstructOrderModel(fields) ==
    /\ pc \in {"idle", "cancel_write"}
    /\ UNCHANGED turn_vars
    /\ UNCHANGED chatbot_vars
    /\ order' = OrderModel(fields)
    /\ last_call' = "OrderModel"
    /\ order_call' = IF pc = "idle" THEN [op |-> "OrderModel", fields |-> fields]
                     ELSE order_call
    /\ UNCHANGED <<pc, orders, result>>

\* the order_data of the tests, with totals at, within and beyond the
\* tolerance
OrderData ==
    {OrderFields("ORD-TEST-001", "Test Product", 2, Dollars(50), total_price,
                 "pending") :
        total_price \in {Dollars(100) + d : d \in {0 - 11, 0 - 10, 0, 10, 11}}
                        \cup {Dollars(150)}}
    \cup {OrderFields("ORD-TEST-001", "Test Product", 0, Dollars(50),
                       Dollars(100), "pending")}

InitOrders ==
    /\ conversation_state = "product_inquiry"
    /\ current_agent = None
    /\ pc = "idle"
    /\ message = ""
    /\ chat_history = <<>>
    /\ selected_agent = None
    /\ order_context = InitialContext
    /\ orders = NoOrders
    /\ order = NoOrder
    /\ order_call = NoCall
    /\ chatbots = NoChatbots
    /\ active_chatbot = None
    /\ response_message = NoResponse
    /\ pending_calls = <<>>
    /\ invoked = <<>>
    /\ messages = <<>>
    /\ function_results = <<>>
    /\ requests = <<>>
    /\ result = NoResult
    /\ last_call = None
    /\ entry = [conversation_state |-> "product_inquiry", current_agent |-> None,
               orders |-> NoOrders]

CreateOrderCall ==
    \E product_name \in OrderNames, quantity \in OrderQuantities,
       products \in SearchResults :
        create_order(product_name, quantity, products)

UpdateOrderStatusCall ==
    \E order_id \in OrderIds, new_status \in StatusNames :
        update_order_status(order_id, new_status)

CancelOrderCall == \E order_id \in OrderIds \cup {"ORD-0"} : cancel_order(order_id)

ConstructOrderModelCall == \E fields \in OrderData : ConstructOrderModel(fields)

NextOrders ==
    \/ CreateOrderCall
    \/ UpdateOrderStatusCall
    \/ CancelOrderCall
    \/ CancelOrderWrite
    \/ ConstructOrderModelCall

SpecOrders == InitOrders /\ [][NextOrders]_vars

-----------------------------------------------------------------------------
(* The tools registered with the order agent, called in any order *)

\* get_order_status(order_id)
get_order_status(order_id) ==
    /\ pc \in {"idle", "cancel_write"}
    /\ UNCHANGED turn_vars
    /\ UNCHANGED chatbot_vars
    /\ UNCHANGED <<orders, order_call>>
    /\ IF GetOrderRaises(orders, order_id)
       THEN /\ OrderFunctionReturns("get_order_status",
                   [success |-> FALSE, error |-> "Failed to retrieve order",
                    order |-> None])
            /\ order' = NoOrder
       ELSE IF order_id \notin DOMAIN orders
       THEN /\ OrderFunctionReturns("get_order_status",
                   [success |-> FALSE, error |-> "not found", order |-> None])
            /\ UNCHANGED order
       ELSE /\ order' = OrderModel(orders[order_id])
            /\ OrderFunctionReturns("get_order_status",
                   [success |-> TRUE,
                    order |-> [order_id |-> order_id,
                               product_name |-> orders[order_id].product_name,
                               quantity |-> orders[order_id].quantity,
                               total_price |-> orders[order_id].total_price,
                               status |-> orders[order_id].status]])

\* validate_order_details(product_name, quantity) with products as the
\* search results
validate_order_details(product_name, quantity, products) ==
    /\ pc \in {"idle", "cancel_write"}
    /\ UNCHANGED turn_vars
    /\ UNCHANGED chatbot_vars
    /\ UNCHANGED <<orders, order, order_call>>
    /\ IF products = <<>>
       THEN OrderFunctionReturns("validate_order_details",
                [success |-> FALSE, valid |-> FALSE, error |-> "not found"])
       ELSE LET target_product == Targets[<<products, product_name>>]
                available == target_product.stock_status = "in_stock"
            IN  OrderFunctionReturns("validate_order_details",
                    [success |-> TRUE, valid |-> available,
                     product |-> [name |-> target_product.name,
                                  price |-> target_product.price,
                                  stock_status |-> target_product.stock_status,
                                  available |-> available],
                     quantity |-> quantity,
                     total_price |-> target_product.price * quantity])

GetOrderStatusCall ==
    \E order_id \in OrderIds \cup {"ORD-0"} : get_order_status(order_id)

ValidateOrderDetailsCall ==
    \E product_name \in OrderNames, quantity \in OrderQuantities,
       products \in SearchResults :
        validate_order_details(product_name, quantity, products)

\* a call of the order function of this name; cancel_order takes two steps
OrderFunctionCall(name) ==
    CASE name = "create_order" -> CreateOrderCall
      [] name = "get_order_status" -> GetOrderStatusCall
      [] name = "validate_order_details" -> ValidateOrderDetailsCall
      [] name = "cancel_order" -> CancelOrderCall \/ CancelOrderWrite
      [] name = "update_order_status" -> UpdateOrderStatusCall

\* the order agent calls the functions of its function_map
NextTools == \E name \in function_map("order_agent") : OrderFunctionCall(name)

SpecTools == InitOrders /\ [][NextTools]_vars

-----------------------------------------------------------------------------
(* Vocabulary of the properties *)

\* the purchase-intent keywords and phrases of either agent
PurchaseIntentPhrases == order_keywords \cup order_intent_phrases

ContainsPurchaseIntent(m) == AnyIn(PurchaseIntentPhrases, Lower(m))

\* positions of the last 5 turns of a transcript
Last5(h) == {i \in 1..Len(h) : i > Len(h) - 5}

\* turn i of the transcript contains one of the tokens, in any letter case
TurnMentions(h, i, tokens) ==
    IsChatMessage(h[i]) /\ AnyIn(tokens, Lower(h[i].content))

PriceAvailabilityTokens == {"price", "$", "available"}

Letters == LowerLetters \cup DOMAIN UpperToLower

\* the character c is the letter l in either case
IsLetter(c, l) == LowerChar(c) = l

\* 'ORD-' + 8 digits + '-' + 8 alphanumerics at position i, in any case
OrderIdAt(m, i) ==
    /\ i + 20 <= Len(m)
    /\ IsLetter(CharAt(m, i), "o")
    /\ IsLetter(CharAt(m, i + 1), "r")
    /\ IsLetter(CharAt(m, i + 2), "d")
    /\ CharAt(m, i + 3) = "-"
    /\ \A j \in 4..11 : CharAt(m, i + j) \in Digits
    /\ CharAt(m, i + 12) = "-"
    /\ \A j \in 13..20 : CharAt(m, i + j) \in Digits \cup Letters

ContainsOrderId(m) == \E i \in 1..Len(m) : OrderIdAt(m, i)

\* '#ORD' followed by a digit or a dash at position i, in any case
ShortOrderIdAt(m, i) ==
    /\ i + 4 <= Len(m)
    /\ CharAt(m, i) = "#"
    /\ IsLetter(CharAt(m, i + 1), "o")
    /\ IsLetter(CharAt(m, i + 2), "r")
    /\ IsLetter(CharAt(m, i + 3), "d")
    /\ CharAt(m, i + 4) \in Digits \cup {"-"}

\* either order-ID shape
ContainsOrderIdShape(m) ==
    \E i \in 1..Len(m) : OrderIdAt(m, i) \/ ShortOrderIdAt(m, i)

\* determine_agent has returned
Routed == pc = "route_done"

\* process_message has returned and nothing was called since
Returned == pc = "idle" /\ last_call = "process_message"

\* the turn in progress is inside the selected agent
AgentRunning == pc \in {"first_request", "tool_calls", "second_request"}

\* the agent executed a create_order call whose result reports success
ExecutedCreateOrder ==
    \E i \in 1..Len(function_results) :
        /\ function_results[i].name = "create_order"
        /\ function_results[i].result.success

HandoffMarked == "handoff_occurred" \in DOMAIN result

-----------------------------------------------------------------------------
(* Routing properties, checked under SpecRoute *)

\* C1: a message with a purchase-intent phrase, after a transcript whose last
\* 5 turns contain a price or availability token, is routed to order_agent.
C1_IntentWithPriceContext ==
    (/\ Routed
     /\ ContainsPurchaseIntent(message)
     /\ \E i \in Last5(chat_history) :
            TurnMentions(chat_history, i, PriceAvailabilityTokens))
    => selected_agent = "order_agent"

\* the phrase is one only should_handoff_to_order_agent knows and the token
\* sits in the oldest of the last 5 turns of a longer transcript
C1_Witness ==
    /\ Routed
    /\ selected_agent = "order_agent"
    /\ ~detect_order_intent(message)
    /\ ContainsPurchaseIntent(message)
    /\ Len(chat_history) = 6
    /\ \A i \in 1..6 :
          TurnMentions(chat_history, i, PriceAvailabilityTokens) <=> i = 2

\* C2: without a product-context indicator in the last 5 turns, a message
\* with a purchase-intent phrase and no order-ID shape is routed to rag_agent.
C2_IntentWithoutContext ==
    (/\ Routed
     /\ ContainsPurchaseIntent(message)
     /\ ~ContainsOrderIdShape(message)
     /\ \A i \in Last5(chat_history) :
            ~TurnMentions(chat_history, i, product_indicators))
    => selected_agent = "rag_agent"

\* an indicator is in the transcript, but older than the last 5 turns
C2_Witness ==
    /\ Routed
    /\ selected_agent = "rag_agent"
    /\ detect_order_intent(message)
    /\ Len(chat_history) = 6
    /\ TurnMentions(chat_history, 1, product_indicators)
    /\ \A i \in Last5(chat_history) :
            ~TurnMentions(chat_history, i, product_indicators)

\* C3: a message containing an order ID (ORD-, 8 digits, -, 8 alphanumerics,
\* any letter case, anywhere) is routed to order_agent.
C3_OrderIdRoutesToOrderAgent ==
    (Routed /\ ContainsOrderId(message)) => selected_agent = "order_agent"

\* an upper-case order ID inside a longer message, no keyword, no transcript
C3_Witness ==
    /\ Routed
    /\ selected_agent = "order_agent"
    /\ ContainsOrderId(message)
    /\ ~OrderIdAt(message, 1)
    /\ message # Lower(message)
    /\ ~ContainsPurchaseIntent(message)
    /\ chat_history = <<>>

\* C4: determine_agent returns rag_agent or order_agent, and rag_agent for a
\* message without purchase-intent phrase and without order-ID shape.
C4_DefaultIsRagAgent ==
    Routed =>
        /\ selected_agent \in {"rag_agent", "order_agent"}
        /\ (~ContainsPurchaseIntent(message) /\ ~ContainsOrderIdShape(message))
              => selected_agent = "rag_agent"

\* order vocabulary without an order ID, after a transcript with product
\* context
C4_Witness ==
    /\ Routed
    /\ selected_agent = "rag_agent"
    /\ AnyIn(order_id_patterns, Lower(message))
    /\ ~ContainsPurchaseIntent(message)
    /\ has_product_context(chat_history)

-----------------------------------------------------------------------------
(* Conversation state, checked under Spec *)

\* C5: when no call is in progress, current_agent = order_agent implies
\* conversation_state = order_processing and current_agent = rag_agent
\* implies conversation_state = product_inquiry.
C5_StateFieldsAgree ==
    pc = "idle" =>
        /\ current_agent = "order_agent" => conversation_state = "order_processing"
        /\ current_agent = "rag_agent" => conversation_state = "product_inquiry"

\* C6: while the selected agent runs, conversation_state and current_agent
\* both still hold the values they had when process_message was entered.
C6_WrittenOnlyAtTheEnd ==
    AgentRunning =>
        /\ conversation_state = entry.conversation_state
        /\ current_agent = entry.current_agent

\* C7: a process_message call that ends in the orchestrator's except clause
\* returns success=false, agent=orchestrator and leaves conversation_state
\* as it was before the call.
C7_ErrorPreservesState ==
    (Returned /\ result.agent = "orchestrator") =>
        /\ result.success = FALSE
        /\ conversation_state = entry.conversation_state

\* C8 as stated: every result of process_message carries orchestrator
\* metadata with selected_agent, conversation_state and has_product_context.
C8_AlwaysThreeFields ==
    Returned =>
        /\ "orchestrator" \in DOMAIN result
        /\ {"selected_agent", "conversation_state", "has_product_context"}
              \subseteq DOMAIN result.orchestrator

\* C8: every result of process_message carries orchestrator metadata with
\* selected_agent and conversation_state; a result of an agent (successful or
\* not) also has has_product_context, the result of the except clause has
\* selected_agent = None and error = orchestrator_error instead.
C8_MetadataByPath ==
    Returned =>
        /\ "orchestrator" \in DOMAIN result
        /\ result.orchestrator.conversation_state = conversation_state
        /\ IF result.agent = "orchestrator"
           THEN /\ DOMAIN result.orchestrator =
                      {"selected_agent", "conversation_state", "error"}
                /\ result.orchestrator.selected_agent = None
                /\ result.orchestrator.error = "orchestrator_error"
           ELSE /\ DOMAIN result.orchestrator =
                      {"selected_agent", "conversation_state",
                       "has_product_context"}
                /\ result.orchestrator.selected_agent = result.agent
                /\ result.orchestrator.has_product_context \in BOOLEAN

\* a failed agent turn whose partial tool results are returned with the
\* metadata
C8_Witness ==
    /\ Returned
    /\ result.agent = "rag_agent"
    /\ ~result.success
    /\ Len(result.function_calls) > 0
    /\ "has_product_context" \in DOMAIN result.orchestrator

\* C9 as stated: the result is marked exactly when the order agent was
\* selected and executed a create_order call that reports success.
C9_MarkedIffOrderCreated ==
    Returned =>
        (HandoffMarked <=> (selected_agent = "order_agent" /\ ExecutedCreateOrder))

\* C9: the result is marked handoff_occurred=true, handoff_from=rag_agent,
\* handoff_to=order_agent exactly when the order agent was selected, its turn
\* returned success=true and it executed a create_order call that reports
\* success.
C9_MarkedIffTurnSucceeded ==
    Returned =>
        /\ HandoffMarked <=>
              /\ selected_agent = "order_agent"
              /\ result.success
              /\ ExecutedCreateOrder
        /\ HandoffMarked =>
              /\ result.handoff_occurred = TRUE
              /\ result.handoff_from = "rag_agent"
              /\ result.handoff_to = "order_agent"

\* the turn made two tool calls, one of them the successful create_order
C9_Witness ==
    /\ Returned
    /\ HandoffMarked
    /\ Len(function_results) = 2
    /\ ~function_results[1].result.success

\* C10: reset_conversation_state sets current_agent to None and
\* conversation_state to product_inquiry, and a reset right after a reset
\* changes neither.
C10_ResetIsIdempotent ==
    [][(pc = "idle" /\ pc' = "idle" /\ last_call' = "reset_conversation_state") =>
          /\ current_agent' = None
          /\ conversation_state' = "product_inquiry"
          /\ last_call = "reset_conversation_state" =>
                UNCHANGED <<current_agent, conversation_state>>]_vars

\* a reset after a turn of the order agent
C10_Witness ==
    /\ last_call = "reset_conversation_state"
    /\ entry.current_agent = "order_agent"
    /\ entry.conversation_state = "order_processing"
    /\ current_agent = None
    /\ conversation_state = "product_inquiry"

-----------------------------------------------------------------------------
(* The tool-calling loop of the agents *)

\* the tool calls of the first model response
Calls == response_message.tool_calls

\* the turn got a first model response that carries tool calls
WithToolCalls == response_message.returned /\ Calls # <<>>

\* the elements of a sequence
Range(seq) == {seq[i] : i \in 1..Len(seq)}

\* record i of a function_calls list is the record of tool call i, with
\* the arguments the agent used for it
RecordsFollowCalls(records) ==
    /\ Len(records) <= Len(Calls)
    /\ \A i \in 1..Len(records) :
          /\ records[i].name = Calls[i].name
          /\ records[i].arguments =
                FunctionArgs(selected_agent, Calls[i], order_context)

\* the elements of a set of numbers in ascending order
Ascending(S) ==
    CHOOSE seq \in [1..Cardinality(S) -> S] :
        \A i, j \in 1..Cardinality(S) : i < j => seq[i] < seq[j]

\* positions among the first k tool calls whose name the agent has a handler for
KnownPositions(k) ==
    {i \in 1..k : Calls[i].name \in function_map(selected_agent)}

\* positions of the tool calls whose name the agent has no handler for
UnknownPositions ==
    {i \in 1..Len(Calls) : Calls[i].name \notin function_map(selected_agent)}

\* executing the tool call raises: its arguments are not JSON, or the handler
\* cannot bind them
Raises(call) ==
    \/ call.json = "invalid"
    \/ /\ call.name \in function_map(selected_agent)
       /\ ~Binds(call.name, FunctionArgs(selected_agent, call, order_context))

RaisingPositions == {i \in 1..Len(Calls) : Raises(Calls[i])}

\* C11: when the first model response of either agent carries no tool calls,
\* the turn ends at once: the result has success = true, an empty
\* function_calls and the model's text as response, no handler was invoked
\* and the first request is the only model request; the tool loop is entered
\* only with tool calls.
C11_NoToolCallsEndsTheTurn ==
    /\ pc \in {"tool_calls", "second_request"} => WithToolCalls
    /\ (Returned /\ response_message.returned /\ Calls = <<>>) =>
          /\ result.agent = selected_agent
          /\ result.success
          /\ result.function_calls = <<>>
          /\ result.response = response_message.content
          /\ invoked = <<>>
          /\ function_results = <<>>
          /\ requests = <<Request(TRUE, 0)>>

C11_Witness ==
    /\ Returned
    /\ response_message.returned
    /\ Calls = <<>>
    /\ result.agent = "rag_agent"
    /\ result.response = ModelText

\* C12: the handlers of the tool calls c1..cn are invoked one at a time in
\* the order c1..cn (the invocations so far are always those of the known
\* names among the calls executed so far, in ascending order), and when no
\* exception occurred function_calls of the result holds exactly one record
\* per call, in that order.
C12_InOrderOneRecordPerCall ==
    WithToolCalls =>
        /\ RecordsFollowCalls(function_results)
        /\ Len(function_results) + Len(pending_calls) = Len(Calls)
           \/ pc = "idle"
        /\ invoked = Ascending(KnownPositions(Len(function_results)))
        /\ (Returned /\ result.success) =>
              /\ result.function_calls = function_results
              /\ Len(result.function_calls) = Len(Calls)

C12_Witness ==
    /\ Returned
    /\ WithToolCalls
    /\ result.success
    /\ Len(result.function_calls) = 2
    /\ result.function_calls[1].name = "get_order_status"
    /\ result.function_calls[2].name = "create_order"
    /\ invoked = <<1, 2>>

\* C13: a tool call whose name is not in the agent's function map does not
\* abort the turn.  Its record carries the result {success: false, error:
\* 'Unknown function: <name>'}; a turn that fails after it fails because a
\* tool call raised (arguments that are not JSON, a handler that cannot bind
\* them) or because the second request raised; otherwise every tool call has
\* its record, the second request was made with all tool results and the
\* turn returns success = true.
C13_UnknownFunctionIsNotFatal ==
    WithToolCalls =>
      \A i \in UnknownPositions :
        /\ Len(function_results) >= i =>
              function_results[i] =
                  [name |-> Calls[i].name, arguments |-> Calls[i].arguments,
                   result |-> [success |-> FALSE,
                               error |-> "Unknown function: " \o Calls[i].name]]
        /\ Returned =>
              LET k == Len(result.function_calls) IN
              /\ result.function_calls = function_results
              /\ i \notin Range(invoked)
              /\ result.success =>
                    /\ k = Len(Calls)
                    /\ Len(requests) = 2
                    /\ requests[2].tool_messages = Len(Calls)
              /\ ~result.success =>
                    IF k = Len(Calls)
                    THEN Len(requests) = 2 /\ result.error = "APIError"
                    ELSE Raises(Calls[k + 1])

C13_Witness ==
    /\ Returned
    /\ WithToolCalls
    /\ result.success
    /\ selected_agent = "order_agent"
    /\ Len(result.function_calls) = 2
    /\ result.function_calls[1].name = "refund_order"
    /\ result.function_calls[1].result.error = "Unknown function: refund_order"
    /\ result.function_calls[2].name = "create_order"
    /\ invoked = <<2>>
    /\ Len(requests) = 2

\* C14: a turn makes at most two model requests; the first offers the
\* tools; the second is made only when every tool call of the first response
\* has been executed and its result appended to the message list, in order,
\* it offers no tools, and the turn returns right after it, whether it
\* succeeded or failed; a turn whose first request failed makes no other.
C14_SecondRequestComesLast ==
    /\ Len(requests) <= 2
    /\ Len(requests) >= 1 => requests[1] = Request(TRUE, 0)
    /\ (Len(requests) = 1 /\ ~response_message.returned) => pc = "idle"
    /\ Len(requests) = 2 =>
          /\ WithToolCalls
          /\ pc = "idle"
          /\ pending_calls = <<>>
          /\ Len(function_results) = Len(Calls)
          /\ requests[2] = Request(FALSE, Len(Calls))
          /\ Len(messages) = Len(Calls) + 1
          /\ messages[1].role = "assistant"
          /\ \A i \in 1..Len(Calls) :
                messages[i + 1] =
                    [role |-> "tool", tool_call_id |-> i,
                     content |-> function_results[i].result]

C14_Witness ==
    /\ Returned
    /\ WithToolCalls
    /\ Len(Calls) = 2
    /\ Len(requests) = 2
    /\ ~result.success
    /\ result.error = "APIError"

\* C15: when parsing the arguments of a tool call, invoking its handler or
\* the second model request raises, the turn returns success = false with
\* the error text; the first tool call that raises ends the loop, so no later
\* tool call is executed and no second request is made; function_calls of the
\* result holds exactly the records of the tool calls executed before the
\* failure, in order.
C15_FailureKeepsCompletedRecords ==
    (Returned /\ WithToolCalls) =>
        LET k == Len(result.function_calls) IN
        /\ result.agent = selected_agent
        /\ RecordsFollowCalls(result.function_calls)
        /\ result.function_calls = function_results
        /\ \A i \in Range(invoked) : i <= k
        /\ RaisingPositions # {} =>
              /\ ~result.success
              /\ k = Min(RaisingPositions) - 1
              /\ Len(requests) = 1
        /\ ~result.success =>
              /\ "error" \in DOMAIN result
              /\ result.error \in {"JSONDecodeError", "TypeError", "APIError"}
              /\ Contains(result.response, result.error)
              /\ IF RaisingPositions = {}
                 THEN /\ k = Len(Calls)
                      /\ Len(requests) = 2
                      /\ result.error = "APIError"
                 ELSE result.error # "APIError"

C15_Witness ==
    /\ Returned
    /\ WithToolCalls
    /\ ~result.success
    /\ result.error = "TypeError"
    /\ Len(Calls) = 2
    /\ Len(result.function_calls) = 1
    /\ result.function_calls[1].name = Calls[1].name
    /\ Len(requests) = 1

-----------------------------------------------------------------------------
(* The context extracted from the transcript *)

\* extract_order_context has returned
Extracted == pc = "extract_done"

\* positions of the last 10 turns of the transcript
Last10 == {i \in 1..Len(chat_history) : i > Len(chat_history) - 10}

\* what the patterns find in turn i
Found(i) == Scanned[chat_history[i].content]

\* the quantity mentions of turn i whose value lies in 1..100, in the order
\* the patterns report them
MentionsInRange(i) ==
    LET values == [k \in 1..Len(Found(i).quantity_matches) |->
                      ToInt(Found(i).quantity_matches[k])]
    IN  SelectSeq(values, LAMBDA v : v \in 1..100)

\* turn i contains a currency amount that reads as a number
HasAmount(i) ==
    /\ Found(i).price_matches # <<>>
    /\ Remove(Found(i).price_matches[1], {"$", ","}) # ""

\* the first currency amount of turn i
FirstAmount(i) == ToFloat(Remove(Found(i).price_matches[1], {"$", ","}))

\* C16: the quantity extract_order_context resolves is an integer of 1..100,
\* and it is 1 when no turn among the last 10 has a quantity mention whose
\* value lies in 1..100.
C16_QuantityWithinRange ==
    Extracted =>
        /\ order_context.quantity \in 1..100
        /\ (\A i \in Last10 : MentionsInRange(i) = <<>>) =>
              order_context.quantity = 1

C16_Witness ==
    /\ Extracted
    /\ Len(chat_history) >= 2
    /\ chat_history[Len(chat_history) - 1].content = "Quantity: 100"
    /\ chat_history[Len(chat_history)].content = "take 150 units"
    /\ order_context.quantity = 100

\* C17: when turns among the last 10 contain currency amounts, the resolved
\* price is the first amount of the earliest such turn, whatever its value,
\* and no later amount replaces it; it is None when no turn has an amount.
C17_FirstPriceIsKept ==
    Extracted =>
        LET priced == {i \in Last10 : HasAmount(i)}
        IN  order_context.price =
                IF priced = {} THEN NoPrice ELSE FirstAmount(Min(priced))

\* C18: product name and quantity are resolved by recency: each is the last
\* candidate of the latest turn among the last 10 that yields one; turns
\* before the last 10 have no influence; the product name is None when no
\* turn among the last 10 yields a candidate.
C18_ResolvedByRecency ==
    Extracted =>
        LET named == {i \in Last10 : Found(i).product_matches # <<>>}
            counted == {i \in Last10 : MentionsInRange(i) # <<>>}
        IN  /\ order_context.product_name =
                  IF named = {} THEN None
                  ELSE LET matches == Found(Largest(named)).product_matches
                       IN  Strip(matches[Len(matches)])
            /\ order_context.quantity =
                  IF counted = {} THEN 1
                  ELSE LET mentions == MentionsInRange(Largest(counted))
                       IN  mentions[Len(mentions)]

C18_Witness ==
    /\ Extracted
    /\ Len(chat_history) = 12
    /\ chat_history[1].content = "Product: Dell XPS, 2 units"
    /\ chat_history[11].content = "MacBook Pro - $1,999.00"
    /\ chat_history[12].content = "buy 5, no 7 items"
    /\ order_context.product_name = "MacBook Pro"
    /\ order_context.quantity = 5

-----------------------------------------------------------------------------
(* Orders *)

\* by how much the total of an order differs from quantity x unit price
Mismatch(fields) ==
    LET d == fields.total_price - fields.quantity * fields.unit_price
    IN  IF d < 0 THEN 0 - d ELSE d

\* C19: a cancel_order call on an order whose stored status is shipped,
\* delivered or cancelled returns, in the same step, a result with
\* success = false and an error, and the orders table is after the call what
\* it was before.
C19_FinalOrdersStayAsTheyAre ==
    [][(/\ pc = "idle"
        /\ pc' = "cancel_write" \/ last_call' = "cancel_order"
        /\ order_call'.order_id \in DOMAIN orders
        /\ orders[order_call'.order_id].status
               \in {"shipped", "delivered", "cancelled"})
       => /\ pc' = "idle"
          /\ last_call' = "cancel_order"
          /\ result'.success = FALSE
          /\ "error" \in DOMAIN result'
          /\ orders' = orders]_vars

C19_Witness ==
    /\ pc = "idle"
    /\ last_call = "cancel_order"
    /\ order_call.order_id \in DOMAIN orders
    /\ orders[order_call.order_id].status = "shipped"
    /\ result = [success |-> FALSE,
                 error |-> "cannot be cancelled (current status: shipped)"]

\* C20: an OrderModel instance exists only with a total within 0.01 of
\* quantity x unit price: a construction with a larger mismatch leaves no
\* instance, and every order in the orders table, written by create_order,
\* is within the tolerance.
C20_TotalWithinTolerance ==
    /\ order.instance => Mismatch(order.fields) <= 10
    /\ (/\ last_call = "OrderModel"
        /\ order_call.op = "OrderModel"
        /\ Mismatch(order_call.fields) > 10) => ~order.instance
    /\ \A order_id \in DOMAIN orders : Mismatch(orders[order_id]) <= 10

C20_Witness ==
    /\ last_call = "OrderModel"
    /\ order_call.op = "OrderModel"
    /\ order_call.fields.quantity = 2
    /\ order_call.fields.total_price = Dollars(100) + 11
    /\ ~order.instance
    /\ \E order_id \in DOMAIN orders : orders[order_id].quantity = 2

\* create_order has returned from a call whose product name is recorded
CreateOrderReturned == last_call = "create_order" /\ order_call.op = "create_order"

\* the name equals or is contained in the name of no product of the catalog
InNoProductName(product_name) ==
    \A product \in Catalog :
        ~Contains(Lower(product.name), Lower(product_name))

\* C21: create_order with a valid request whose product name equals or is
\* contained in the name of no catalog product returns success=false with
\* order_id null and an error containing 'not found', and stores no order.
C21_UnknownProductIsNotFound ==
    [][(/\ last_call' = "create_order"
        /\ order_call'.op = "create_order"
        /\ pc = "idle"
        /\ ~OrderRequestRaises(order_call'.product_name, order_call'.quantity)
        /\ InNoProductName(order_call'.product_name))
       => /\ ~result'.success
          /\ result'.order_id = None
          /\ Contains(Lower(result'.error), "not found")
          /\ orders' = orders]_vars

-----------------------------------------------------------------------------
(* The arguments the order agent hands to the handlers *)

\* the keys the record at position i carries beyond those of its tool call
Added(i) == DOMAIN function_results[i].arguments \ DOMAIN Calls[i].arguments

\* the record at position i carries every argument of its tool call as the
\* model supplied it
SuppliedKept(i) ==
    \A k \in DOMAIN Calls[i].arguments :
        /\ k \in DOMAIN function_results[i].arguments
        /\ function_results[i].arguments[k] = Calls[i].arguments[k]

\* C22: the order agent changes tool-call arguments only for create_order
\* calls and only by adding missing keys: product_name is added iff it is
\* absent and the context has a product name, quantity is added iff it is
\* absent; a supplied argument is never overwritten, and the arguments of
\* every other tool call reach the handler unchanged.
C22_OnlyMissingKeysAreAdded ==
    \A i \in 1..Len(function_results) :
        /\ SuppliedKept(i)
        /\ IF selected_agent = "order_agent" /\ Calls[i].name = "create_order"
           THEN /\ Added(i) \subseteq {"product_name", "quantity"}
                /\ "product_name" \in Added(i)
                       <=> /\ "product_name" \notin DOMAIN Calls[i].arguments
                           /\ HasProductName(order_context)
                /\ "product_name" \in Added(i)
                       => function_results[i].arguments.product_name
                              = order_context.product_name
                /\ "quantity" \in Added(i)
                       <=> "quantity" \notin DOMAIN Calls[i].arguments
                /\ "quantity" \in Added(i)
                       => function_results[i].arguments.quantity
                              = order_context.quantity
           ELSE Added(i) = {}

\* the order agent has run a create_order call that came without a product
\* name and one that came with a name other than the context's
C22_Witness ==
    /\ selected_agent = "order_agent"
    /\ HasProductName(order_context)
    /\ \E i \in 1..Len(function_results) :
          /\ Calls[i].name = "create_order"
          /\ Added(i) = {"product_name"}
    /\ \E i \in 1..Len(function_results) :
          /\ Calls[i].name = "create_order"
          /\ Added(i) = {"quantity"}
          /\ Calls[i].arguments.product_name # order_context.product_name

-----------------------------------------------------------------------------
(* The handoff suggestion *)

\* C23: no result returned by process_message carries handoff_suggested:
\* whenever should_handoff_to_order_agent is true for the message and the
\* transcript of a turn, determine_agent has selected order_agent, so the
\* rag-agent branch never observes it true.
C23_HandoffIsNeverSuggested ==
    /\ "handoff_suggested" \notin DOMAIN result
    /\ selected_agent = "rag_agent"
          => ~should_handoff_to_order_agent(message, chat_history)

\* a turn has returned whose message has no order keyword and for which
\* should_handoff_to_order_agent is true
C23_Witness ==
    /\ Returned
    /\ result.success
    /\ ~detect_order_intent(message)
    /\ should_handoff_to_order_agent(message, chat_history)
    /\ selected_agent = "order_agent"

-----------------------------------------------------------------------------
(* Routing and the state of the orchestrator, checked under SpecMemory *)

\* a turn older than the last five mentions a price
OlderTurnMentionsPrice ==
    \E i \in 1..(Len(chat_history) - 5) :
        /\ IsChatMessage(chat_history[i])
        /\ AnyIn(handoff_indicators, Lower(chat_history[i].content))

\* C24: routing is memoryless: determine_agent returns the agent it returns
\* for the message and the last 5 turns alone, whatever conversation_state,
\* current_agent and the turns older than the last 5 are, and it changes
\* neither conversation_state nor current_agent.
C24_RoutingIsMemoryless ==
    Routed =>
        /\ selected_agent = determine_agent(message, LastN(chat_history, 5))
        /\ conversation_state = entry.conversation_state
        /\ current_agent = entry.current_agent

\* a purchase phrase is routed to the rag agent although an older turn
\* mentions a price and the previous turn was the order agent's
C24_Witness ==
    /\ Routed
    /\ AnyIn(order_intent_phrases, Lower(message))
    /\ OlderTurnMentionsPrice
    /\ conversation_state = "order_processing"
    /\ current_agent = "order_agent"
    /\ selected_agent = "rag_agent"

-----------------------------------------------------------------------------
(* The orders under the tools of the order agent, checked under SpecTools *)

\* C25: under any sequence of calls to the four registered tools of the
\* order agent every stored order has status pending or cancelled, the only
\* status change is pending to cancelled, and a cancelled order never
\* changes status again.
C25_PendingThenCancelledOnly ==
    [][/\ \A id \in DOMAIN orders' :
             orders'[id].status \in {"pending", "cancelled"}
       /\ \A id \in DOMAIN orders :
             /\ id \in DOMAIN orders'
             /\ orders'[id].status # orders[id].status
                   => /\ orders[id].status = "pending"
                      /\ orders'[id].status = "cancelled"]_vars

\* cancel_order has just been refused on a cancelled order while another
\* order is pending
C25_Witness ==
    /\ last_call = "cancel_order"
    /\ order_call.op = "cancel_order"
    /\ order_call.order_id \in DOMAIN orders
    /\ orders[order_call.order_id].status = "cancelled"
    /\ result = CannotBeCancelled("cancelled")
    /\ \E id \in DOMAIN orders : orders[id].status = "pending"

-----------------------------------------------------------------------------
(* cancel_order next to another writer, checked under SpecOrders *)

\* C26: when cancel_order runs concurrently with a status update on the
\* same order, an order whose stored status has become shipped, delivered
\* or cancelled is never overwritten to cancelled: nothing separates the
\* status check of cancel_order from its status write.
C26_CheckAndWriteAreAtomic ==
    [][(/\ pc = "cancel_write"
        /\ pc' = "idle"
        /\ order_call.order_id \in DOMAIN orders
        /\ orders[order_call.order_id].status \in Uncancellable)
       => orders' = orders]_vars

-----------------------------------------------------------------------------
(* Tool calls that follow the schema *)

\* tool call i names a tool of the selected agent and supplies exactly the
\* parameters the schema of the tool marks as required
SuppliesRequired(i) ==
    /\ Calls[i].name \in function_map(selected_agent)
    /\ Calls[i].json = "object"
    /\ DOMAIN Calls[i].arguments = SchemaRequired[Calls[i].name]

\* C27: a tool call that supplies exactly the parameters the schema marks as
\* required is dispatched to its handler and yields a record without
\* aborting the turn: when the loop has ended and the calls before it have
\* their records, it has its record too.
C27_RequiredParametersSuffice ==
    (pc = "idle" /\ WithToolCalls) =>
        \A i \in 1..Len(Calls) :
            (SuppliesRequired(i) /\ Len(function_results) >= i - 1)
                => /\ Len(function_results) >= i
                   /\ function_results[i].name = Calls[i].name
                   /\ i \in Range(invoked)

-----------------------------------------------------------------------------
(* The chatbot instances *)

\* an instance starts a turn
TurnStarts == active_chatbot = None /\ active_chatbot' # None

\* C28: the transcript process_user_message hands to the orchestrator holds
\* only the turns that precede the current user message: it is the chat
\* history of the instance as it was before the message arrived.
C28_TranscriptPrecedesTheMessage ==
    [][TurnStarts =>
          chat_history' = chatbots[active_chatbot'].chat_history]_vars

\* a step of process_user_message or of reset_conversation of an instance
Acts(bot) ==
    \/ active_chatbot = bot
    \/ active_chatbot' = bot
    \/ reset_conversation(bot)

\* C29: a process_user_message or a reset_conversation of one instance leaves
\* the current_agent and the conversation_state another instance observes as
\* they were.
C29_InstancesAreIndependent ==
    [][\A bot \in Chatbots : \A other \in Chatbots \ {bot} :
          Acts(bot) => OrchestratorOf(other)' = OrchestratorOf(other)]_vars

-----------------------------------------------------------------------------
(* Orders placed by a turn that fails *)

\* C30: a turn that returns success = false leaves the order store as it was
\* when the turn began: no order a create_order tool call of the turn placed
\* remains stored.
C30_FailedTurnStoresNothing ==
    (Returned /\ ~result.success) => orders = entry.orders

====
